---- MODULE Spec2Model ----
(***************************************************************************)
(* A model of the Scarlet compiler front end: the lexer (src/src/Lexer.cpp),*)
(* the recursive-descent parser (src/src/Parser.cpp) and the semantic      *)
(* analyzer (src/src/Semantic.cpp), with the part of the driver            *)
(* (src/src/main.cpp) that feeds one stage into the next.                   *)
(*                                                                         *)
(* Characters are one-character strings, a source text is a sequence of    *)
(* characters, cursors are 0-based as in the code (element i of a C++      *)
(* vector is element i + 1 of the TLA+ sequence).                          *)
(***************************************************************************)
EXTENDS Integers, Sequences, FiniteSets, TLC

VARIABLES
    \* Lexer object (Lexer.h:56-60) and the local `tokens` of tokenize()
    source_, current_, start_, location_, tokens, lexPc,
    \* the harness that calls tokenize() twice: which call is running, how the
    \* second call was made, and the stream the first call returned
    run, how, firstTokens,
    \* Parser object (Parser.h:52-58), the local `statements` of parse(), the
    \* position of parse(), and the exception that left parse() if one did
    tokens_, pcurrent_, hadError_, panicMode_, statements, parsePc, escaped,
    \* SemanticAnalyzer object (Semantic.h:117-125), the call stack of its
    \* visit methods, the node visited last and the position of analyze()
    scopes_, errors_, inFunction_, currentFunctionReturnType_, inLoop_,
    currentExpressionType_, frames, visited, semPc, lastVisit,
    \* the client of a SymbolTable (Semantic.h:29-48): the table it started
    \* from and the calls it has made since
    initialTable, calls,
    \* LLVMCodeGenerator (CodeGen.h:58-69, 98-99): the module and the builder,
    \* the generator's fields, where generate() is and how many top level
    \* statements it has lowered
    module_, builder_, currentValue_, currentFunction_, variables_, functions_,
    breakTargets_, continueTargets_, hasErrors_, genErrors_, genPc, generated,
    \* the driver (main.cpp:95-212): the options, the stages run so far, what
    \* was emitted and the exit code of the process
    options, stages, emitted, exitCode

lexVars == <<source_, current_, start_, location_, tokens, lexPc, run, how, firstTokens>>
parseVars == <<tokens_, pcurrent_, hadError_, panicMode_, statements, parsePc, escaped>>
semVars == <<scopes_, errors_, inFunction_, currentFunctionReturnType_, inLoop_,
             currentExpressionType_, frames, visited, semPc, lastVisit>>
tableVars == <<initialTable, calls>>
\* the objects the front end specifications leave alone
genVars ==
    <<module_, builder_, currentValue_, currentFunction_, variables_, functions_,
      breakTargets_, continueTargets_, hasErrors_, genErrors_, genPc, generated>>
driverVars == <<options, stages, emitted, exitCode>>
restVars == <<tableVars, genVars, driverVars>>
vars == <<lexVars, parseVars, semVars, restVars>>

----------------------------------------------------------------------------
(* Bounds of the model *)

\* longest source text enumerated exhaustively over LexAlphabet
MaxSrcLen == 3

\* longest token list (without its END_OF_FILE) enumerated exhaustively over
\* ParseAlphabet
MaxTokens == 4

----------------------------------------------------------------------------
(* Shared support: Utils.cpp, Utils.h *)

\* what peek() returns past the end of the text ('\0'); no source character
NUL == "NUL"

Digits == {"0", "1", "2", "3", "4", "5", "6", "7", "8", "9"}
Letters == {"a", "b", "c", "d", "e", "f", "g", "h", "i", "j", "k", "l", "m",
            "n", "o", "p", "q", "r", "s", "t", "u", "v", "w", "x", "y", "z",
            "A", "B", "C", "D", "E", "F", "G", "H", "I", "J", "K", "L", "M",
            "N", "O", "P", "Q", "R", "S", "T", "U", "V", "W", "X", "Y", "Z"}

isWhitespace(c) == c \in {" ", "\t", "\n", "\r", "\f"}
isDigit(c) == c \in Digits
isAlpha(c) == c \in Letters \/ c = "_"
isAlphaNumeric(c) == isAlpha(c) \/ isDigit(c)

\* SourceLocation::advance
LocAdvance(loc, c) ==
    IF c = "\n"
    THEN [line |-> loc.line + 1, column |-> 1, offset |-> loc.offset + 1]
    ELSE [line |-> loc.line, column |-> loc.column + 1, offset |-> loc.offset + 1]

StartLocation == [line |-> 1, column |-> 1, offset |-> 0]

----------------------------------------------------------------------------
(* Lexer.  A lexer state ls is [current, start, location]; source_ is the   *)
(* text, which no method changes.                                          *)

Token(type, value, location) == [type |-> type, value |-> value, location |-> location]

\* the null unique_ptr nextToken() returns at the end of the text
NoToken == [type |-> "NONE", value |-> <<>>, location |-> StartLocation]

\* Lexer::initializeKeywords: the keyword of a text, or "IDENTIFIER"
KeywordOrIdentifier(text) ==
    CASE text = <<"i", "f">> -> "IF"
      [] text = <<"e", "l", "s", "e">> -> "ELSE"
      [] text = <<"w", "h", "i", "l", "e">> -> "WHILE"
      [] text = <<"f", "o", "r">> -> "FOR"
      [] text = <<"r", "e", "t", "u", "r", "n">> -> "RETURN"
      [] text = <<"f", "u", "n", "c", "t", "i", "o", "n">> -> "FUNCTION"
      [] text = <<"v", "a", "r">> -> "VAR"
      [] text = <<"l", "e", "t">> -> "LET"
      [] text = <<"c", "o", "n", "s", "t">> -> "CONST"
      [] text = <<"t", "r", "u", "e">> -> "TRUE"
      [] text = <<"f", "a", "l", "s", "e">> -> "FALSE"
      [] text = <<"n", "u", "l", "l">> -> "NULL_LITERAL"
      [] OTHER -> "IDENTIFIER"

LexIsAtEnd(ls) == ls.current >= Len(source_)

LexPeek(ls) == IF ls.current >= Len(source_) THEN NUL ELSE source_[ls.current + 1]

\* Lexer::advance: the state after it (the character it returns is LexPeek before)
LexAdvance(ls) ==
    IF LexIsAtEnd(ls) THEN ls
    ELSE [ls EXCEPT !.current = @ + 1,
                    !.location = LocAdvance(@, source_[ls.current + 1])]

\* Lexer::match
LexMatch(ls, expected) ==
    IF LexIsAtEnd(ls) \/ source_[ls.current + 1] # expected
    THEN [ok |-> FALSE, ls |-> ls]
    ELSE [ok |-> TRUE,
          ls |-> [ls EXCEPT !.current = @ + 1, !.location = LocAdvance(@, expected)]]

\* std::string::substr(pos, len) of source_
Substr(pos, len) == SubSeq(source_, pos + 1, pos + len)

\* a faulty errorToken: the lexical error is reported as the end of the file
errorToken_AsEndOfFile(ls, message) == Token("END_OF_FILE", message, ls.location)

errorToken(ls, message) == Token("ERROR", message, ls.location)

RECURSIVE skipWhitespace(_)
skipWhitespace(ls) ==
    IF ~LexIsAtEnd(ls) /\ isWhitespace(LexPeek(ls))
    THEN skipWhitespace(LexAdvance(ls))
    ELSE ls

RECURSIVE skipComment(_)
skipComment(ls) ==
    IF ~LexIsAtEnd(ls) /\ LexPeek(ls) # "\n"
    THEN skipComment(LexAdvance(ls))
    ELSE ls

\* the while loop of readNumber: the state and hasDecimal after it
RECURSIVE NumberLoop(_, _)
NumberLoop(ls, hasDecimal) ==
    IF ~LexIsAtEnd(ls) /\ (isDigit(LexPeek(ls)) \/ (~hasDecimal /\ LexPeek(ls) = "."))
    THEN NumberLoop(LexAdvance(ls), hasDecimal \/ LexPeek(ls) = ".")
    ELSE [ls |-> ls, hasDecimal |-> hasDecimal]

readNumber(ls) ==
    LET r == NumberLoop(ls, FALSE)
        number == Substr(r.ls.start, r.ls.current - r.ls.start)
        type == IF r.hasDecimal THEN "FLOAT" ELSE "INTEGER"
    IN  [tok |-> Token(type, number, r.ls.location), ls |-> r.ls]

\* the while loop of readString: stops at the closing quote, at the end of
\* the text, or (newline = TRUE) in front of a line break
RECURSIVE StringLoop(_)
StringLoop(ls) ==
    IF ~LexIsAtEnd(ls) /\ LexPeek(ls) # "\""
    THEN IF LexPeek(ls) = "\n"
         THEN [ls |-> ls, newline |-> TRUE]
         ELSE StringLoop(LexAdvance(ls))
    ELSE [ls |-> ls, newline |-> FALSE]

readString(ls) ==
    LET r == StringLoop(ls)
    IN  IF r.newline \/ LexIsAtEnd(r.ls)
        THEN [tok |-> errorToken(r.ls, <<"Unterminated string">>), ls |-> r.ls]
        ELSE LET closed == LexAdvance(r.ls)
                 value == Substr(closed.start + 1, closed.current - closed.start - 2)
             IN  [tok |-> Token("STRING", value, closed.location), ls |-> closed]

RECURSIVE IdentifierLoop(_)
IdentifierLoop(ls) ==
    IF ~LexIsAtEnd(ls) /\ isAlphaNumeric(LexPeek(ls))
    THEN IdentifierLoop(LexAdvance(ls))
    ELSE ls

readIdentifier(ls) ==
    LET end == IdentifierLoop(ls)
        text == Substr(end.start, end.current - end.start)
    IN  [tok |-> Token(KeywordOrIdentifier(text), text, end.location), ls |-> end]

\* the two-character operators of readOperator
TwoCharType(twoChar) ==
    CASE twoChar = <<"=", "=">> -> "EQUAL"
      [] twoChar = <<"!", "=">> -> "NOT_EQUAL"
      [] twoChar = <<"<", "=">> -> "LESS_EQUAL"
      [] twoChar = <<">", "=">> -> "GREATER_EQUAL"
      [] twoChar = <<"&", "&">> -> "AND"
      [] twoChar = <<"|", "|">> -> "OR"
      [] OTHER -> "NONE"

\* the switch of readOperator; "ERROR" is its default case
SingleCharType(c) ==
    CASE c = "(" -> "LEFT_PAREN"
      [] c = ")" -> "RIGHT_PAREN"
      [] c = "{" -> "LEFT_BRACE"
      [] c = "}" -> "RIGHT_BRACE"
      [] c = "[" -> "LEFT_BRACKET"
      [] c = "]" -> "RIGHT_BRACKET"
      [] c = ";" -> "SEMICOLON"
      [] c = "," -> "COMMA"
      [] c = "." -> "DOT"
      [] c = "+" -> "PLUS"
      [] c = "-" -> "MINUS"
      [] c = "*" -> "MULTIPLY"
      [] c = "/" -> "DIVIDE"
      [] c = "%" -> "MODULO"
      [] c = "=" -> "ASSIGN"
      [] c = "<" -> "LESS"
      [] c = ">" -> "GREATER"
      [] c = "!" -> "NOT"
      [] OTHER -> "ERROR"

readOperator(ls) ==
    LET c == source_[ls.current]
        twoChar == <<c, LexPeek(ls)>>
    IN  IF ~LexIsAtEnd(ls) /\ TwoCharType(twoChar) # "NONE"
        THEN LET after == LexAdvance(ls)
             IN  [tok |-> Token(TwoCharType(twoChar), twoChar, after.location), ls |-> after]
        ELSE IF SingleCharType(c) # "ERROR"
             THEN [tok |-> Token(SingleCharType(c), <<c>>, ls.location), ls |-> ls]
             ELSE [tok |-> errorToken(ls, <<"Unexpected character: ", c>>), ls |-> ls]

RECURSIVE nextToken(_)
nextToken(ls) ==
    LET ws == skipWhitespace(ls)
    IN  IF LexIsAtEnd(ws) THEN [tok |-> NoToken, ls |-> ws]
        ELSE LET c == LexPeek(ws)
                 adv == LexAdvance([ws EXCEPT !.start = ws.current])
                 slash == LexMatch(adv, "/")
             IN  IF c = "/" /\ slash.ok THEN nextToken(skipComment(slash.ls))
                 ELSE IF isAlpha(c) THEN readIdentifier(adv)
                 ELSE IF isDigit(c) THEN readNumber(adv)
                 ELSE IF c = "\"" THEN readString(adv)
                 ELSE readOperator(adv)

\* the Lexer object as a lexer state
LexState == [current |-> current_, start |-> start_, location |-> location_]

\* the END_OF_FILE token tokenize() appends
EofToken(location) == Token("END_OF_FILE", <<>>, location)

----------------------------------------------------------------------------
(* Syntax tree: AST.h *)

\* a null ExpressionPtr or StatementPtr
Null == [kind |-> "Null"]

LiteralExpression(value, type, location) ==
    [kind |-> "Literal", value |-> value, type |-> type, location |-> location]
VariableExpression(name, location) ==
    [kind |-> "Variable", name |-> name, location |-> location]
BinaryExpression(left, op, right, location) ==
    [kind |-> "Binary", left |-> left, op |-> op, right |-> right, location |-> location]
UnaryExpression(op, operand, location) ==
    [kind |-> "Unary", op |-> op, operand |-> operand, location |-> location]
AssignmentExpression(name, value, location) ==
    [kind |-> "Assignment", name |-> name, value |-> value, location |-> location]
FunctionCallExpression(name, arguments, location) ==
    [kind |-> "Call", name |-> name, arguments |-> arguments, location |-> location]
BlockStatement(stmts, location) ==
    [kind |-> "Block", statements |-> stmts, location |-> location]
VariableDeclaration(name, type, initializer, location) ==
    [kind |-> "VarDecl", name |-> name, type |-> type, initializer |-> initializer,
     location |-> location]
FunctionDeclaration(name, returnType, parameters, body, location) ==
    [kind |-> "FuncDecl", name |-> name, returnType |-> returnType,
     parameters |-> parameters, body |-> body, location |-> location]
IfStatement(condition, thenBranch, elseBranch, location) ==
    [kind |-> "If", condition |-> condition, thenBranch |-> thenBranch,
     elseBranch |-> elseBranch, location |-> location]
WhileStatement(condition, body, location) ==
    [kind |-> "While", condition |-> condition, body |-> body, location |-> location]
ReturnStatement(value, location) ==
    [kind |-> "Return", value |-> value, location |-> location]
ExpressionStatement(expression, location) ==
    [kind |-> "ExprStmt", expression |-> expression, location |-> location]

----------------------------------------------------------------------------
(* Parser.  Every parse method takes the cursor it starts at and gives a    *)
(* result: ok with the node built and the cursor after it, or the          *)
(* CompilerError thrown, with the cursor at the throw and whether          *)
(* Parser::error raised it (which sets hadError_ and panicMode_).          *)

\* what tokens_[i] is for an index outside the list: no token of the list
\* (the lexer's lines start at 1)
OutOfList == [type |-> "OUT_OF_LIST", value |-> <<>>,
              location |-> [line |-> 0, column |-> 0, offset |-> 0]]

peek(cur) == IF cur + 1 \in DOMAIN tokens_ THEN tokens_[cur + 1] ELSE OutOfList
previous(cur) == IF cur \in DOMAIN tokens_ THEN tokens_[cur] ELSE OutOfList

Ok(node, cur) ==
    [ok |-> TRUE, node |-> node, cur |-> cur, msg |-> "", loc |-> StartLocation,
     flagged |-> FALSE]

\* throw CompilerError(message, peek()->location())
Throw(message, cur) ==
    [ok |-> FALSE, node |-> Null, cur |-> cur, msg |-> message,
     loc |-> peek(cur).location, flagged |-> FALSE]

isAtEnd(cur) == peek(cur).type = "END_OF_FILE"
check(cur, type) == IF isAtEnd(cur) THEN FALSE ELSE peek(cur).type = type

\* Parser::advance: the cursor after it
advance(cur) == IF ~isAtEnd(cur) THEN cur + 1 ELSE cur

\* Parser::match is check followed, when it holds, by advance
match(cur, type) == check(cur, type)

\* a faulty error(): it records the error and returns to its caller
error_Returns(message, cur) ==
    [ok |-> TRUE, node |-> Null, cur |-> cur, msg |-> message, loc |-> StartLocation,
     flagged |-> TRUE]

\* Parser::error: sets hadError_ and panicMode_ and throws on both branches
error(message, cur) ==
    [ok |-> FALSE, node |-> Null, cur |-> cur, msg |-> message,
     loc |-> IF ~isAtEnd(cur) THEN peek(cur).location ELSE previous(cur).location,
     flagged |-> TRUE]

\* a faulty consume: it takes the token whatever its kind is, END_OF_FILE
\* too
consume_Unchecked(cur, type, message) == Ok(Null, cur + 1)

consume(cur, type, message) ==
    IF check(cur, type) THEN Ok(Null, advance(cur)) ELSE Throw(message, cur)

\* the statement starters synchronize() stops in front of
SyncTokens == {"FUNCTION", "VAR", "LET", "CONST", "FOR", "IF", "WHILE", "RETURN"}

\* Parser::synchronize: the cursor after it
RECURSIVE synchronize(_)
synchronize(cur) ==
    IF isAtEnd(cur) THEN cur
    ELSE IF previous(cur).type = "SEMICOLON" THEN cur
    ELSE IF peek(cur).type \in SyncTokens THEN cur
    ELSE synchronize(advance(cur))

\* the only element of a one-element set
Only(S) == CHOOSE x \in S : TRUE

\* `r` evaluated once; when it is a thrown exception it propagates, otherwise
\* the rest of the method, K, goes on from it
Bind(r, K(_)) == Only({IF ~x.ok THEN x ELSE K(x) : x \in {r}})

\* Parser::parseType; the node of the result is the DataType
parseType(cur) ==
    IF match(cur, "IDENTIFIER")
    THEN LET typeName == peek(cur).value
             after == advance(cur)
         IN  CASE typeName = <<"i", "n", "t">> -> Ok("INT", after)
               [] typeName = <<"f", "l", "o", "a", "t">> -> Ok("FLOAT", after)
               [] typeName = <<"b", "o", "o", "l">> -> Ok("BOOL", after)
               [] typeName = <<"s", "t", "r", "i", "n", "g">> -> Ok("STRING", after)
               [] typeName = <<"v", "o", "i", "d">> -> Ok("VOID", after)
               [] OTHER -> error("Unknown type", after)
    ELSE error("Expect type name.", cur)

RECURSIVE parseAssignment(_), parseLogicalOr(_), parseLogicalAnd(_), parseEquality(_),
          parseComparison(_), parseTerm(_), parseFactor(_), parseUnary(_),
          parsePrimary(_), LogicalOrLoop(_, _), LogicalAndLoop(_, _),
          EqualityLoop(_, _), ComparisonLoop(_, _), TermLoop(_, _), FactorLoop(_, _),
          ArgumentsLoop(_, _)

parseExpression(cur) == parseAssignment(cur)

parseAssignment(cur) ==
    Bind(parseLogicalOr(cur), LAMBDA expr :
        IF match(expr.cur, "ASSIGN")
        THEN Bind(parseAssignment(advance(expr.cur)), LAMBDA value :
                 IF expr.node.kind = "Variable"
                 THEN Ok(AssignmentExpression(expr.node.name, value.node,
                                              peek(expr.cur).location), value.cur)
                 ELSE error("Invalid assignment target", value.cur))
        ELSE expr)

parseLogicalOr(cur) ==
    Bind(parseLogicalAnd(cur), LAMBDA expr : LogicalOrLoop(expr.node, expr.cur))

\* the while loops of the binary levels: expr is the left operand so far
LogicalOrLoop(expr, cur) ==
    IF match(cur, "OR")
    THEN Bind(parseLogicalAnd(advance(cur)), LAMBDA right :
             LogicalOrLoop(BinaryExpression(expr, "OR", right.node, peek(cur).location),
                           right.cur))
    ELSE Ok(expr, cur)

parseLogicalAnd(cur) ==
    Bind(parseEquality(cur), LAMBDA expr : LogicalAndLoop(expr.node, expr.cur))

LogicalAndLoop(expr, cur) ==
    IF match(cur, "AND")
    THEN Bind(parseEquality(advance(cur)), LAMBDA right :
             LogicalAndLoop(BinaryExpression(expr, "AND", right.node, peek(cur).location),
                            right.cur))
    ELSE Ok(expr, cur)

parseEquality(cur) ==
    Bind(parseComparison(cur), LAMBDA expr : EqualityLoop(expr.node, expr.cur))

EqualityLoop(expr, cur) ==
    IF match(cur, "NOT_EQUAL") \/ match(cur, "EQUAL")
    THEN Bind(parseComparison(advance(cur)), LAMBDA right :
             LET operator_ == peek(cur)
                 op == IF operator_.type = "EQUAL" THEN "EQUAL" ELSE "NOT_EQUAL"
             IN  EqualityLoop(BinaryExpression(expr, op, right.node, operator_.location),
                              right.cur))
    ELSE Ok(expr, cur)

parseComparison(cur) ==
    Bind(parseTerm(cur), LAMBDA expr : ComparisonLoop(expr.node, expr.cur))

ComparisonLoop(expr, cur) ==
    IF \/ match(cur, "GREATER") \/ match(cur, "GREATER_EQUAL")
       \/ match(cur, "LESS") \/ match(cur, "LESS_EQUAL")
    THEN Bind(parseTerm(advance(cur)), LAMBDA right :
             LET operator_ == peek(cur)
                 op == CASE operator_.type = "GREATER" -> "GREATER"
                         [] operator_.type = "GREATER_EQUAL" -> "GREATER_EQUAL"
                         [] operator_.type = "LESS" -> "LESS"
                         [] operator_.type = "LESS_EQUAL" -> "LESS_EQUAL"
             IN  ComparisonLoop(BinaryExpression(expr, op, right.node, operator_.location),
                                right.cur))
    ELSE Ok(expr, cur)

\* a faulty loop of parseTerm: the right operand is a whole term, so that
\* a - b - c nests to the right
TermLoop_RightNested(expr, cur) ==
    IF match(cur, "MINUS") \/ match(cur, "PLUS")
    THEN Bind(parseTerm(advance(cur)), LAMBDA right :
             LET operator_ == peek(cur)
                 op == IF operator_.type = "PLUS" THEN "ADD" ELSE "SUBTRACT"
             IN  Ok(BinaryExpression(expr, op, right.node, operator_.location), right.cur))
    ELSE Ok(expr, cur)

parseTerm(cur) ==
    Bind(parseFactor(cur), LAMBDA expr : TermLoop(expr.node, expr.cur))

TermLoop(expr, cur) ==
    IF match(cur, "MINUS") \/ match(cur, "PLUS")
    THEN Bind(parseFactor(advance(cur)), LAMBDA right :
             LET operator_ == peek(cur)
                 op == IF operator_.type = "PLUS" THEN "ADD" ELSE "SUBTRACT"
             IN  TermLoop(BinaryExpression(expr, op, right.node, operator_.location),
                          right.cur))
    ELSE Ok(expr, cur)

parseFactor(cur) ==
    Bind(parseUnary(cur), LAMBDA expr : FactorLoop(expr.node, expr.cur))

\* TokenType::SLASH is the kind parseFactor matches for division; the lexer
\* emits DIVIDE for `/` (Lexer.cpp:193) and no token has the kind SLASH
FactorLoop(expr, cur) ==
    IF match(cur, "SLASH") \/ match(cur, "MULTIPLY") \/ match(cur, "MODULO")
    THEN Bind(parseUnary(advance(cur)), LAMBDA right :
             LET operator_ == peek(cur)
                 op == CASE operator_.type = "MULTIPLY" -> "MULTIPLY"
                         [] operator_.type = "SLASH" -> "DIVIDE"
                         [] operator_.type = "MODULO" -> "MODULO"
             IN  FactorLoop(BinaryExpression(expr, op, right.node, operator_.location),
                            right.cur))
    ELSE Ok(expr, cur)

parseUnary(cur) ==
    IF match(cur, "NOT") \/ match(cur, "MINUS")
    THEN Bind(parseUnary(advance(cur)), LAMBDA right :
             LET operator_ == peek(cur)
                 op == IF operator_.type = "MINUS" THEN "SUBTRACT" ELSE "NOT"
             IN  Ok(UnaryExpression(op, right.node, operator_.location), right.cur))
    ELSE parsePrimary(cur)

parsePrimary(cur) ==
    LET tok == peek(cur)
        after == advance(cur)
    IN  IF match(cur, "FALSE")
        THEN Ok(LiteralExpression(<<"f", "a", "l", "s", "e">>, "BOOL", tok.location), after)
        ELSE IF match(cur, "TRUE")
        THEN Ok(LiteralExpression(<<"t", "r", "u", "e">>, "BOOL", tok.location), after)
        ELSE IF match(cur, "NULL_LITERAL")
        THEN Ok(LiteralExpression(<<"n", "u", "l", "l">>, "UNKNOWN", tok.location), after)
        ELSE IF match(cur, "INTEGER")
        THEN Ok(LiteralExpression(tok.value, "INT", tok.location), after)
        ELSE IF match(cur, "FLOAT")
        THEN Ok(LiteralExpression(tok.value, "FLOAT", tok.location), after)
        ELSE IF match(cur, "STRING")
        THEN Ok(LiteralExpression(tok.value, "STRING", tok.location), after)
        ELSE IF match(cur, "IDENTIFIER")
        THEN Ok(VariableExpression(tok.value, tok.location), after)
        ELSE IF match(cur, "LEFT_PAREN")
        THEN Bind(parseExpression(after), LAMBDA expr :
                 Bind(consume(expr.cur, "RIGHT_PAREN", "Expect ')' after expression."),
                      LAMBDA close : Ok(expr.node, close.cur)))
        ELSE Throw("Expect expression.", cur)

\* Parser::parseArguments (no parse method calls it); the node of the result
\* is the argument list
ArgumentsLoop(arguments, cur) ==
    Bind(parseExpression(cur), LAMBDA arg :
        IF match(arg.cur, "COMMA")
        THEN ArgumentsLoop(Append(arguments, arg.node), advance(arg.cur))
        ELSE Ok(Append(arguments, arg.node), arg.cur))

parseArguments(cur) ==
    IF ~check(cur, "RIGHT_PAREN") THEN ArgumentsLoop(<<>>, cur) ELSE Ok(<<>>, cur)

RECURSIVE parseStatement(_), parseBlockStatement(_), BlockLoop(_, _),
          parseIfStatement(_), parseWhileStatement(_), parseFunctionDeclaration(_)

parseExpressionStatement(cur) ==
    Bind(parseExpression(cur), LAMBDA expr :
        Bind(consume(expr.cur, "SEMICOLON", "Expect ';' after expression."), LAMBDA semi :
            Ok(ExpressionStatement(expr.node, previous(semi.cur).location), semi.cur)))

\* the while loop of parseBlockStatement; the node of the result is the list
BlockLoop(stmts, cur) ==
    IF ~check(cur, "RIGHT_BRACE") /\ ~isAtEnd(cur)
    THEN Bind(parseStatement(cur), LAMBDA stmt :
             BlockLoop(Append(stmts, stmt.node), stmt.cur))
    ELSE Ok(stmts, cur)

parseBlockStatement(cur) ==
    Bind(BlockLoop(<<>>, cur), LAMBDA body :
        Bind(consume(body.cur, "RIGHT_BRACE", "Expect '}' after block."), LAMBDA close :
            Ok(BlockStatement(body.node, previous(close.cur).location), close.cur)))

\* called with the cursor after the `if` keyword
parseIfStatement(cur) ==
    Bind(consume(cur, "LEFT_PAREN", "Expect '(' after 'if'."), LAMBDA open :
    Bind(parseExpression(open.cur), LAMBDA condition :
    Bind(consume(condition.cur, "RIGHT_PAREN", "Expect ')' after if condition."),
         LAMBDA close :
    Bind(parseStatement(close.cur), LAMBDA thenBranch :
        IF match(thenBranch.cur, "ELSE")
        THEN Bind(parseStatement(advance(thenBranch.cur)), LAMBDA elseBranch :
                 Ok(IfStatement(condition.node, thenBranch.node, elseBranch.node,
                                previous(elseBranch.cur).location), elseBranch.cur))
        ELSE Ok(IfStatement(condition.node, thenBranch.node, Null,
                            previous(thenBranch.cur).location), thenBranch.cur)))))

\* called with the cursor after the `while` keyword
parseWhileStatement(cur) ==
    Bind(consume(cur, "LEFT_PAREN", "Expect '(' after 'while'."), LAMBDA open :
    Bind(parseExpression(open.cur), LAMBDA condition :
    Bind(consume(condition.cur, "RIGHT_PAREN", "Expect ')' after condition."),
         LAMBDA close :
    Bind(parseStatement(close.cur), LAMBDA body :
        Ok(WhileStatement(condition.node, body.node, previous(body.cur).location),
           body.cur)))))

\* called with the cursor after the `return` keyword
parseReturnStatement(cur) ==
    Bind(IF ~check(cur, "SEMICOLON") THEN parseExpression(cur) ELSE Ok(Null, cur),
         LAMBDA value :
    Bind(consume(value.cur, "SEMICOLON", "Expect ';' after return value."), LAMBDA semi :
        Ok(ReturnStatement(value.node, previous(cur).location), semi.cur)))

\* called with the cursor after var, let or const.  TokenType::COLON is the
\* kind matched in front of a type; no token of the lexer has it
parseVariableDeclaration(cur) ==
    Bind(consume(cur, "IDENTIFIER", "Expect variable name."), LAMBDA name :
    Bind(IF match(name.cur, "COLON") THEN parseType(advance(name.cur))
         ELSE Ok("UNKNOWN", name.cur), LAMBDA type :
    Bind(IF match(type.cur, "ASSIGN") THEN parseExpression(advance(type.cur))
         ELSE Ok(Null, type.cur), LAMBDA initializer :
    Bind(consume(initializer.cur, "SEMICOLON", "Expect ';' after variable declaration."),
         LAMBDA semi :
        Ok(VariableDeclaration(previous(name.cur).value, type.node, initializer.node,
                               previous(cur).location), semi.cur)))))

\* the do-while loop of parseParameters; the node of the result is the list
\* of <<name, type>> pairs
RECURSIVE ParametersLoop(_, _)
ParametersLoop(parameters, cur) ==
    Bind(consume(cur, "IDENTIFIER", "Expect parameter name."), LAMBDA name :
    Bind(consume(name.cur, "COLON", "Expect ':' after parameter name."), LAMBDA colon :
    Bind(parseType(colon.cur), LAMBDA type :
        LET added == Append(parameters, <<previous(name.cur).value, type.node>>)
        IN  IF match(type.cur, "COMMA") THEN ParametersLoop(added, advance(type.cur))
            ELSE Ok(added, type.cur))))

parseParameters(cur) ==
    IF ~check(cur, "RIGHT_PAREN") THEN ParametersLoop(<<>>, cur) ELSE Ok(<<>>, cur)

\* called with the cursor after the `function` keyword
parseFunctionDeclaration(cur) ==
    Bind(consume(cur, "IDENTIFIER", "Expect function name."), LAMBDA name :
    Bind(consume(name.cur, "LEFT_PAREN", "Expect '(' after function name."), LAMBDA open :
    Bind(parseParameters(open.cur), LAMBDA parameters :
    Bind(consume(parameters.cur, "RIGHT_PAREN", "Expect ')' after parameters."),
         LAMBDA close :
    Bind(IF match(close.cur, "COLON") THEN parseType(advance(close.cur))
         ELSE Ok("VOID", close.cur), LAMBDA returnType :
    Bind(consume(returnType.cur, "LEFT_BRACE", "Expect '{' before function body."),
         LAMBDA brace :
    Bind(parseBlockStatement(brace.cur), LAMBDA body :
        Ok(FunctionDeclaration(previous(name.cur).value, returnType.node,
                               parameters.node, body.node,
                               previous(name.cur).location), body.cur))))))))

parseStatement(cur) ==
    IF match(cur, "IF") THEN parseIfStatement(advance(cur))
    ELSE IF match(cur, "WHILE") THEN parseWhileStatement(advance(cur))
    ELSE IF match(cur, "RETURN") THEN parseReturnStatement(advance(cur))
    ELSE IF match(cur, "LEFT_BRACE") THEN parseBlockStatement(advance(cur))
    ELSE IF match(cur, "VAR") \/ match(cur, "LET") \/ match(cur, "CONST")
    THEN parseVariableDeclaration(advance(cur))
    ELSE IF match(cur, "FUNCTION") THEN parseFunctionDeclaration(advance(cur))
    ELSE parseExpressionStatement(cur)

\* Parser::Parser
InitParser(tokenList) ==
    /\ tokens_ = tokenList
    /\ pcurrent_ = 0
    /\ hadError_ = FALSE
    /\ panicMode_ = FALSE

\* one iteration of the while loop of parse(): a statement is parsed and
\* added, or its CompilerError is caught and handed to error(), whose own
\* throw leaves the handler and parse(); synchronize() comes after that call
ParseStep ==
    /\ parsePc = "loop"
    /\ ~isAtEnd(pcurrent_)
    /\ \E stmt \in {parseStatement(pcurrent_)} :
           IF stmt.ok
           THEN /\ statements' = Append(statements, stmt.node)
                /\ pcurrent_' = stmt.cur
                /\ UNCHANGED <<hadError_, panicMode_, parsePc, escaped>>
           ELSE LET thrown == error(stmt.msg, stmt.cur)
                IN  IF ~thrown.ok
                    THEN /\ hadError_' = TRUE
                         /\ panicMode_' = TRUE
                         /\ pcurrent_' = thrown.cur
                         /\ parsePc' = "escaped"
                         /\ escaped' = [thrown |-> TRUE, msg |-> thrown.msg]
                         /\ UNCHANGED statements
                    ELSE /\ hadError_' = TRUE
                         /\ panicMode_' = FALSE
                         /\ pcurrent_' = synchronize(thrown.cur)
                         /\ UNCHANGED <<statements, parsePc, escaped>>
    /\ UNCHANGED tokens_

\* the end of parse(): the loop is left and the Program node returned
ParseFinish ==
    /\ parsePc = "loop"
    /\ isAtEnd(pcurrent_)
    /\ parsePc' = "done"
    /\ UNCHANGED <<tokens_, pcurrent_, hadError_, panicMode_, statements, escaped>>

----------------------------------------------------------------------------
(* The source texts the lexer is run on *)

\* characters of the exhaustively enumerated texts: a letter, a digit, the
\* dot, the quote, a line break, a blank, the slash, the assignment sign, the
\* colon and a byte no token starts with
LexAlphabet == {"a", "1", ".", "\"", "\n", " ", "/", "=", ":", "@"}

\* every text over LexAlphabet of at most MaxSrcLen characters
ShortSources == UNION {[1..n -> LexAlphabet] : n \in 0..MaxSrcLen}

\* var x: int = 1;
SrcVarDecl ==
    <<"v", "a", "r", " ", "x", ":", " ", "i", "n", "t", " ", "=", " ", "1",
      ";">>

\* function f(a: int): int { return a + 1; }
SrcFunction ==
    <<"f", "u", "n", "c", "t", "i", "o", "n", " ", "f", "(", "a", ":", " ",
      "i", "n", "t", ")", ":", " ", "i", "n", "t", " ", "{", " ", "r", "e",
      "t", "u", "r", "n", " ", "a", " ", "+", " ", "1", ";", " ", "}">>

\* a - b; // c\nd;
SrcComment ==
    <<"a", " ", "-", " ", "b", ";", " ", "/", "/", " ", "c", "\n", "d", ";">>

\* "s" == "t";
SrcString ==
    <<"\"", "s", "\"", " ", "=", "=", " ", "\"", "t", "\"", ";">>

\* a + b * c % d;
SrcArith ==
    <<"a", " ", "+", " ", "b", " ", "*", " ", "c", " ", "%", " ", "d", ";">>

\* a / b;
SrcDivide ==
    <<"a", " ", "/", " ", "b", ";">>

\* a * b;
SrcMultiply ==
    <<"a", " ", "*", " ", "b", ";">>

\* 1 <= 2.5;
SrcCompare ==
    <<"1", " ", "<", "=", " ", "2", ".", "5", ";">>

\* programs that use only the documented language surface (spec 6.2)
WellFormedSources ==
    {SrcVarDecl, SrcFunction, SrcComment, SrcString, SrcArith, SrcDivide,
     SrcMultiply, SrcCompare}

Sources == ShortSources \cup WellFormedSources

----------------------------------------------------------------------------
(* The stages that are not running *)

NoException == [thrown |-> FALSE, msg |-> ""]

ParserIdle ==
    /\ tokens_ = <<>>
    /\ pcurrent_ = 0
    /\ hadError_ = FALSE
    /\ panicMode_ = FALSE
    /\ statements = <<>>
    /\ parsePc = "idle"
    /\ escaped = NoException

\* no SymbolTable client
TableIdle ==
    /\ initialTable = <<>>
    /\ calls = <<>>

\* no code generator
GenIdle ==
    /\ module_ = <<>>
    /\ builder_ = <<>>
    /\ currentValue_ = <<>>
    /\ currentFunction_ = 0
    /\ variables_ = <<>>
    /\ functions_ = <<>>
    /\ breakTargets_ = <<>>
    /\ continueTargets_ = <<>>
    /\ hasErrors_ = FALSE
    /\ genErrors_ = <<>>
    /\ genPc = "idle"
    /\ generated = 0

\* no driver
DriverIdle ==
    /\ options = <<>>
    /\ stages = <<>>
    /\ emitted = "nothing"
    /\ exitCode = "none"

RestIdle == TableIdle /\ GenIdle /\ DriverIdle

SemIdle ==
    /\ scopes_ = <<>>
    /\ errors_ = <<>>
    /\ inFunction_ = FALSE
    /\ currentFunctionReturnType_ = "VOID"
    /\ inLoop_ = FALSE
    /\ currentExpressionType_ = "UNKNOWN"
    /\ frames = <<>>
    /\ visited = 0
    /\ semPc = "idle"
    /\ lastVisit = [kind |-> "None"]

----------------------------------------------------------------------------
(* Lexer::Lexer and Lexer::tokenize *)

\* Lexer::Lexer: the cursor of a new Lexer object
LexerNew == [current |-> 0, start |-> 0, location |-> StartLocation]

InitLexer ==
    /\ source_ \in Sources
    /\ current_ = LexerNew.current
    /\ start_ = LexerNew.start
    /\ location_ = LexerNew.location
    /\ tokens = <<>>
    /\ lexPc = "scan"
    /\ run = 1
    /\ how = "first"
    /\ firstTokens = <<>>

\* one iteration of the while loop of tokenize()
LexStep ==
    /\ lexPc = "scan"
    /\ ~LexIsAtEnd(LexState)
    /\ LET r == nextToken([LexState EXCEPT !.start = current_])
       IN  /\ current_' = r.ls.current
           /\ start_' = r.ls.start
           /\ location_' = r.ls.location
           /\ tokens' = IF r.tok # NoToken THEN Append(tokens, r.tok) ELSE tokens
    /\ UNCHANGED <<source_, lexPc, run, how, firstTokens>>

\* the end of tokenize(): the loop is left, END_OF_FILE appended, tokens returned
LexFinish ==
    /\ lexPc = "scan"
    /\ LexIsAtEnd(LexState)
    /\ tokens' = Append(tokens, EofToken(location_))
    /\ lexPc' = "done"
    /\ firstTokens' = IF run = 1 THEN tokens' ELSE firstTokens
    /\ UNCHANGED <<source_, current_, start_, location_, run, how>>

\* a second tokenize() call on the Lexer object that has already been run
TokenizeAgain ==
    /\ lexPc = "done" /\ run = 1 /\ parsePc = "idle"
    /\ tokens' = <<>>
    /\ lexPc' = "scan"
    /\ run' = 2
    /\ how' = "same"
    /\ UNCHANGED <<source_, current_, start_, location_, firstTokens>>

\* tokenize() on a second Lexer object constructed from the same source
TokenizeFresh ==
    /\ lexPc = "done" /\ run = 1 /\ parsePc = "idle"
    /\ current_' = LexerNew.current
    /\ start_' = LexerNew.start
    /\ location_' = LexerNew.location
    /\ tokens' = <<>>
    /\ lexPc' = "scan"
    /\ run' = 2
    /\ how' = "fresh"
    /\ UNCHANGED <<source_, firstTokens>>

InitLex == InitLexer /\ ParserIdle /\ SemIdle /\ RestIdle

NextLex ==
    \/ LexStep /\ UNCHANGED <<parseVars, semVars, restVars>>
    \/ LexFinish /\ UNCHANGED <<parseVars, semVars, restVars>>
    \/ TokenizeAgain /\ UNCHANGED <<parseVars, semVars, restVars>>
    \/ TokenizeFresh /\ UNCHANGED <<parseVars, semVars, restVars>>

SpecLex == InitLex /\ [][NextLex]_vars

----------------------------------------------------------------------------
(* Claims about the lexer *)

TokenTypes(ts) == [i \in 1..Len(ts) |-> ts[i].type]

EofPositions(ts) == {i \in 1..Len(ts) : ts[i].type = "END_OF_FILE"}

HasErrorToken(ts) == \E i \in 1..Len(ts) : ts[i].type = "ERROR"

\* the text holds no quote after its first character
NoClosingQuote == \A i \in 2..Len(source_) : source_[i] # "\""

\* C1 (safety part): a returned stream holds exactly one END_OF_FILE, as its
\* last element, and a text that starts with an unknown byte or with an
\* unterminated string has an ERROR token as the first element of the stream
C1_StreamShape ==
    lexPc = "done" =>
        /\ Len(tokens) >= 1
        /\ EofPositions(tokens) = {Len(tokens)}
        /\ (how # "same" /\ Len(source_) >= 1 /\ source_[1] \in {"@", ":"})
              => tokens[1] = Token("ERROR", <<"Unexpected character: ", source_[1]>>,
                                   LocAdvance(StartLocation, source_[1]))
        /\ (how # "same" /\ Len(source_) >= 1 /\ source_[1] = "\"" /\ NoClosingQuote)
              => (tokens[1].type = "ERROR" /\ tokens[1].value = <<"Unterminated string">>)

\* C1: for every source text tokenize terminates (every iteration of its
\* loop moves the cursor forward, the cursor never passes the end of the text,
\* and at the end of the text the loop is left), and it returns a stream with
\* exactly one END_OF_FILE, which is its last element; malformed input gives
\* ERROR tokens inside the stream and the scan goes on to the end of the text
C1_TokenizeTerminates ==
    /\ []C1_StreamShape
    /\ [](current_ <= Len(source_))
    /\ [](lexPc = "scan" => (current_ < Len(source_) \/ ENABLED LexFinish))
    /\ [][lexPc = "scan" => (current_' > current_ \/ (lexPc' = "done" /\ current_ = Len(source_)))]_vars

\* C1 witness: a text that starts with an unknown byte was scanned to the end,
\* and tokens follow the ERROR token
C1_Witness ==
    /\ lexPc = "done" /\ run = 1
    /\ source_ = <<"@", "a", "1">>
    /\ TokenTypes(tokens) = <<"ERROR", "IDENTIFIER", "END_OF_FILE">>

\* C2: the token stream of a well-formed program holds no ERROR token
C2_WellFormedNoError ==
    (lexPc = "done" /\ run = 1 /\ source_ \in WellFormedSources) => ~HasErrorToken(tokens)

\* C3: two invocations of tokenize for the same source, on a fresh Lexer or
\* on the same Lexer object again, return equal token streams
C3_TokenizeIsPure ==
    (lexPc = "done" /\ run = 2) => tokens = firstTokens

\* the offset behind the longest run of digits of the text that starts at
\* offset pos
RECURSIVE DigitRunEnd(_)
DigitRunEnd(pos) ==
    IF pos < Len(source_) /\ isDigit(source_[pos + 1]) THEN DigitRunEnd(pos + 1) ELSE pos

\* the character of the text at offset pos, NUL behind the end of the text
CharAt(pos) == IF pos < Len(source_) THEN source_[pos + 1] ELSE NUL

\* the number tokens of the stream; the location of a number token is the
\* cursor behind its lexeme, so its lexeme starts Len(value) before it
NumberTokens == {i \in 1..Len(tokens) : tokens[i].type \in {"INTEGER", "FLOAT"}}
NumberStart(i) == tokens[i].location.offset - Len(tokens[i].value)

DecimalPoints(lexeme) == {k \in 1..Len(lexeme) : lexeme[k] = "."}

\* C21: a digit run followed by "." is a FLOAT only when a digit follows the
\* ".", and then its lexeme holds exactly one "."; every other digit run is
\* an INTEGER whose lexeme is the digit run, the "." being left in the text
\* for the next token
C21_FloatNeedsFraction ==
    (lexPc = "done" /\ run = 1) =>
        \A i \in NumberTokens :
            LET from == NumberStart(i)
                to == DigitRunEnd(from)
                fraction == CharAt(to) = "." /\ isDigit(CharAt(to + 1))
            IN  IF fraction
                THEN /\ tokens[i].type = "FLOAT"
                     /\ Cardinality(DecimalPoints(tokens[i].value)) = 1
                     /\ tokens[i].value = Substr(from, DigitRunEnd(to + 1) - from)
                ELSE /\ tokens[i].type = "INTEGER"
                     /\ tokens[i].value = Substr(from, to - from)

----------------------------------------------------------------------------
(* The driver, compileFile in main.cpp: the lexer, the scan of its tokens   *)
(* for ERROR, then the parser on the token list                            *)

\* main.cpp:120-126: an ERROR token ends the compilation before the parser
LexicalErrorHalt ==
    /\ lexPc = "done" /\ run = 1 /\ parsePc = "idle"
    /\ HasErrorToken(tokens)
    /\ parsePc' = "halted"
    /\ UNCHANGED <<tokens_, pcurrent_, hadError_, panicMode_, statements, escaped>>

\* main.cpp:128-131: Parser parser(tokens); parser.parse()
StartParse ==
    /\ lexPc = "done" /\ run = 1 /\ parsePc = "idle"
    /\ ~HasErrorToken(tokens)
    /\ tokens_' = tokens
    /\ pcurrent_' = 0
    /\ hadError_' = FALSE
    /\ panicMode_' = FALSE
    /\ parsePc' = "loop"
    /\ UNCHANGED <<statements, escaped>>

Init == InitLexer /\ ParserIdle /\ SemIdle /\ RestIdle

Next ==
    \/ LexStep /\ UNCHANGED <<parseVars, semVars, restVars>>
    \/ LexFinish /\ UNCHANGED <<parseVars, semVars, restVars>>
    \/ LexicalErrorHalt /\ UNCHANGED <<lexVars, semVars, restVars>>
    \/ StartParse /\ UNCHANGED <<lexVars, semVars, restVars>>
    \/ ParseStep /\ UNCHANGED <<lexVars, semVars, restVars>>
    \/ ParseFinish /\ UNCHANGED <<lexVars, semVars, restVars>>

Spec == Init /\ [][Next]_vars

----------------------------------------------------------------------------
(* The parser on token lists of its own *)

\* the token kinds of the exhaustively enumerated lists
ParseAlphabet ==
    {"IDENTIFIER", "INTEGER", "PLUS", "MINUS", "MULTIPLY", "ASSIGN", "LEFT_PAREN",
     "RIGHT_PAREN", "SEMICOLON", "LEFT_BRACE", "RIGHT_BRACE", "RETURN", "FOR"}

\* the binary operator kinds of enum TokenType
BinaryOperatorTokens ==
    {"OR", "AND", "EQUAL", "NOT_EQUAL", "LESS", "LESS_EQUAL", "GREATER",
     "GREATER_EQUAL", "PLUS", "MINUS", "MULTIPLY", "DIVIDE", "MODULO"}

ShortTokenLists == UNION {[1..n -> ParseAlphabet] : n \in 0..MaxTokens}

\* the tokens of the primary operands of the expression lists
PrimaryTokens == {"IDENTIFIER", "INTEGER"}

\* a op1 b op2 c ;
PrecedenceLists ==
    {<<a, op1, b, op2, c, "SEMICOLON">> :
        a \in PrimaryTokens, b \in PrimaryTokens, c \in PrimaryTokens,
        op1 \in BinaryOperatorTokens, op2 \in BinaryOperatorTokens}

\* -a op b ;   !a op b ;
UnaryLists ==
    {<<u, a, op, b, "SEMICOLON">> :
        u \in {"MINUS", "NOT"}, a \in PrimaryTokens, b \in PrimaryTokens,
        op \in BinaryOperatorTokens}

AssignmentLists ==
    {<<"IDENTIFIER", "ASSIGN", "IDENTIFIER", "ASSIGN", "INTEGER", "SEMICOLON">>,
     <<"LEFT_PAREN", "IDENTIFIER", "RIGHT_PAREN", "ASSIGN", "INTEGER", "SEMICOLON">>,
     <<"IDENTIFIER", "PLUS", "IDENTIFIER", "ASSIGN", "INTEGER", "SEMICOLON">>,
     <<"IDENTIFIER", "ASSIGN", "IDENTIFIER", "PLUS", "INTEGER", "SEMICOLON">>,
     <<"MINUS", "IDENTIFIER", "ASSIGN", "INTEGER", "SEMICOLON">>,
     <<"INTEGER", "ASSIGN", "INTEGER", "SEMICOLON">>}

CallLists ==
    {<<"IDENTIFIER", "LEFT_PAREN", "RIGHT_PAREN", "SEMICOLON">>,
     <<"IDENTIFIER", "LEFT_PAREN", "IDENTIFIER", "RIGHT_PAREN", "SEMICOLON">>,
     <<"IDENTIFIER", "LEFT_PAREN", "IDENTIFIER", "COMMA", "INTEGER", "RIGHT_PAREN",
       "SEMICOLON">>}

StatementLists ==
    {<<"VAR", "IDENTIFIER", "ASSIGN", "INTEGER", "SEMICOLON", "IDENTIFIER", "SEMICOLON">>,
     <<"FUNCTION", "IDENTIFIER", "LEFT_PAREN", "RIGHT_PAREN", "LEFT_BRACE", "RETURN",
       "IDENTIFIER", "SEMICOLON", "RIGHT_BRACE">>,
     <<"IF", "LEFT_PAREN", "TRUE", "RIGHT_PAREN", "IDENTIFIER", "SEMICOLON", "ELSE",
       "IDENTIFIER", "SEMICOLON">>,
     <<"WHILE", "LEFT_PAREN", "FALSE", "RIGHT_PAREN", "LEFT_BRACE", "RIGHT_BRACE">>,
     <<"IDENTIFIER", "PLUS", "SEMICOLON", "IDENTIFIER", "SEMICOLON">>,
     <<"IDENTIFIER", "IDENTIFIER", "SEMICOLON", "VAR", "IDENTIFIER", "SEMICOLON">>}

TokenKindLists ==
    ShortTokenLists \cup PrecedenceLists \cup UnaryLists \cup AssignmentLists
    \cup CallLists \cup StatementLists

\* the identifier at position i of a list is named by the i-th letter
IdentifierNames == <<"a", "b", "c", "d", "e", "f", "g", "h", "i", "j">>

LexemeAt(kind, i) ==
    CASE kind = "IDENTIFIER" -> <<IdentifierNames[i]>>
      [] kind = "INTEGER" -> <<"1">>
      [] OTHER -> <<>>

\* the token list of a list of kinds, END_OF_FILE appended; every token ends
\* one column after the one before it
MakeTokens(kinds) ==
    [i \in 1..(Len(kinds) + 1) |->
        IF i <= Len(kinds)
        THEN Token(kinds[i], LexemeAt(kinds[i], i),
                   [line |-> 1, column |-> i + 1, offset |-> i])
        ELSE EofToken([line |-> 1, column |-> i, offset |-> i - 1])]

LexerIdle ==
    /\ source_ = <<>>
    /\ current_ = 0
    /\ start_ = 0
    /\ location_ = StartLocation
    /\ tokens = <<>>
    /\ lexPc = "idle"
    /\ run = 1
    /\ how = "first"
    /\ firstTokens = <<>>

InitParse ==
    /\ LexerIdle
    /\ SemIdle
    /\ RestIdle
    /\ \E kinds \in TokenKindLists : InitParser(MakeTokens(kinds))
    /\ statements = <<>>
    /\ parsePc = "loop"
    /\ escaped = NoException

NextParse ==
    \/ ParseStep /\ UNCHANGED <<lexVars, semVars, restVars>>
    \/ ParseFinish /\ UNCHANGED <<lexVars, semVars, restVars>>

SpecParse == InitParse /\ [][NextParse]_vars

----------------------------------------------------------------------------
(* Claims about the parser *)

\* C4: no exception escapes parse(): after a syntax error the diagnostic is
\* recorded, synchronize() skips to a statement boundary and parsing resumes
C4_NoExceptionEscapesParse == parsePc # "escaped" /\ ~escaped.thrown


\* the subexpressions of an expression, itself included
RECURSIVE SubExpressions(_)
SubExpressions(e) ==
    CASE e.kind = "Binary" -> {e} \cup SubExpressions(e.left) \cup SubExpressions(e.right)
      [] e.kind = "Unary" -> {e} \cup SubExpressions(e.operand)
      [] e.kind = "Assignment" -> {e} \cup SubExpressions(e.value)
      [] e.kind = "Call" ->
            {e} \cup UNION {SubExpressions(e.arguments[i]) : i \in 1..Len(e.arguments)}
      [] e.kind = "Null" -> {}
      [] OTHER -> {e}

\* the expressions of a statement
RECURSIVE StatementExpressions(_)
StatementExpressions(st) ==
    CASE st.kind = "ExprStmt" -> SubExpressions(st.expression)
      [] st.kind = "VarDecl" -> SubExpressions(st.initializer)
      [] st.kind = "Return" -> SubExpressions(st.value)
      [] st.kind = "Block" ->
            UNION {StatementExpressions(st.statements[i]) : i \in 1..Len(st.statements)}
      [] st.kind = "FuncDecl" -> StatementExpressions(st.body)
      [] st.kind = "If" ->
            SubExpressions(st.condition) \cup StatementExpressions(st.thenBranch)
            \cup StatementExpressions(st.elseBranch)
      [] st.kind = "While" -> SubExpressions(st.condition) \cup StatementExpressions(st.body)
      [] OTHER -> {}

\* the expressions of the statements parse() has collected
ParsedExpressions == UNION {StatementExpressions(statements[i]) : i \in 1..Len(statements)}

\* parse() has returned or has been left by an exception
ParseEnded == parsePc \in {"done", "escaped"}

\* the precedence level of the grammar (spec 4.2) of a binary OperatorType
LevelOf(op) ==
    CASE op = "OR" -> 1
      [] op = "AND" -> 2
      [] op \in {"EQUAL", "NOT_EQUAL"} -> 3
      [] op \in {"LESS", "LESS_EQUAL", "GREATER", "GREATER_EQUAL"} -> 4
      [] op \in {"ADD", "SUBTRACT"} -> 5
      [] op \in {"MULTIPLY", "DIVIDE", "MODULO"} -> 6

\* the OperatorType a binary operator token stands for
OperatorOf(type) ==
    CASE type = "PLUS" -> "ADD"
      [] type = "MINUS" -> "SUBTRACT"
      [] OTHER -> type

\* the binary operator tokens some level of the parser matches: all of them
\* but DIVIDE, whose place in parseFactor is taken by SLASH (claim C7)
MatchedBinaryTokens == BinaryOperatorTokens \ {"DIVIDE"}

\* the primary expression of the identifier or integer token i
PrimaryAt(i) ==
    IF tokens_[i].type = "IDENTIFIER"
    THEN VariableExpression(tokens_[i].value, tokens_[i].location)
    ELSE LiteralExpression(tokens_[i].value, "INT", tokens_[i].location)

BinaryAt(left, i, right) ==
    BinaryExpression(left, OperatorOf(tokens_[i].type), right, tokens_[i].location)

\* the tree of `a op1 b op2 c ;` by the precedence table of the grammar
ExpectedPrecedenceTree ==
    IF LevelOf(OperatorOf(tokens_[2].type)) >= LevelOf(OperatorOf(tokens_[4].type))
    THEN BinaryAt(BinaryAt(PrimaryAt(1), 2, PrimaryAt(3)), 4, PrimaryAt(5))
    ELSE BinaryAt(PrimaryAt(1), 2, BinaryAt(PrimaryAt(3), 4, PrimaryAt(5)))

\* an expression built from a list without parentheses nests by level: the
\* left operand of a binary node is no looser than the node, its right operand
\* is tighter, and the operand of a unary node is no binary node
NestsByLevel(e) ==
    /\ e.kind = "Binary" =>
          /\ e.left.kind # "Assignment" /\ e.right.kind # "Assignment"
          /\ e.left.kind = "Binary" => LevelOf(e.left.op) >= LevelOf(e.op)
          /\ e.right.kind = "Binary" => LevelOf(e.right.op) > LevelOf(e.op)
    /\ e.kind = "Unary" => e.operand.kind \notin {"Binary", "Assignment"}

\* C5: a op1 b op2 c; parses to Binary(Binary(a, op1, b), op2, c) when the
\* level of op1 is at least that of op2 and to Binary(a, op1, Binary(b, op2, c))
\* otherwise (so a + b * c and a * b + c parse as the claim says, and equal
\* levels associate to the left); -a op b; and !a op b; parse to
\* Binary(Unary(a), op, b); and every expression parsed from a list without
\* parentheses nests by level
C5_Precedence ==
    LET kinds == TokenTypes(tokens_)
        body == SubSeq(kinds, 1, Len(kinds) - 1)
    IN  /\ (body \in PrecedenceLists /\ pcurrent_ > 0
            /\ body[2] \in MatchedBinaryTokens /\ body[4] \in MatchedBinaryTokens)
              => /\ parsePc # "escaped"
                 /\ statements = <<ExpressionStatement(ExpectedPrecedenceTree,
                                                       tokens_[6].location)>>
        /\ (body \in UnaryLists /\ pcurrent_ > 0 /\ body[3] \in MatchedBinaryTokens)
              => /\ parsePc # "escaped"
                 /\ statements =
                      <<ExpressionStatement(
                          BinaryAt(UnaryExpression(OperatorOf(tokens_[1].type), PrimaryAt(2),
                                                   tokens_[1].location),
                                   3, PrimaryAt(4)),
                          tokens_[5].location)>>
        /\ (\A i \in 1..Len(kinds) : kinds[i] # "LEFT_PAREN")
              => \A e \in ParsedExpressions : NestsByLevel(e)

\* C5 witness: a + b * c; over identifiers has been parsed, the product under the sum
C5_Witness ==
    /\ TokenTypes(tokens_) = <<"IDENTIFIER", "PLUS", "IDENTIFIER", "MULTIPLY", "IDENTIFIER",
                              "SEMICOLON", "END_OF_FILE">>
    /\ parsePc = "done"
    /\ statements[1].expression.op = "ADD"
    /\ statements[1].expression.right.op = "MULTIPLY"

\* the position of the token with a location
TokenIndexAt(location) == CHOOSE i \in 1..Len(tokens_) : tokens_[i].location = location

\* C6: only a bare identifier is an assignment target: the `=` of every
\* Assignment node follows an IDENTIFIER token at once (so `(a) = e`, whose
\* `=` follows `)`, gives no Assignment node)
C6_OnlyBareIdentifierTargets ==
    \A e \in ParsedExpressions :
        e.kind = "Assignment" =>
            /\ tokens_[TokenIndexAt(e.location)].type = "ASSIGN"
            /\ TokenIndexAt(e.location) > 1
            /\ tokens_[TokenIndexAt(e.location) - 1].type = "IDENTIFIER"

\* C7: the source `a / b;` is tokenized and parsed to
\* ExprStmt(Binary(a, DIVIDE, b))
C7_DivisionParses ==
    (source_ = SrcDivide /\ ParseEnded) =>
        /\ parsePc = "done"
        /\ Len(statements) = 1
        /\ statements[1].kind = "ExprStmt"
        /\ statements[1].expression =
              BinaryExpression(VariableExpression(<<"a">>, tokens_[1].location), "DIVIDE",
                               VariableExpression(<<"b">>, tokens_[3].location),
                               tokens_[2].location)

\* the number of arguments written in a call list
WrittenArguments(kinds) ==
    Cardinality({i \in 1..Len(kinds) : kinds[i] \in {"IDENTIFIER", "INTEGER"} /\ i > 1})

\* C8: identifier ( args ) in primary position parses to a Call node with the
\* arguments in source order, the empty list for f()
C8_CallsParse ==
    LET kinds == TokenTypes(tokens_)
        body == SubSeq(kinds, 1, Len(kinds) - 1)
    IN  (body \in CallLists /\ ParseEnded) =>
            /\ parsePc = "done"
            /\ Len(statements) = 1
            /\ statements[1].expression.kind = "Call"
            /\ statements[1].expression.name = tokens_[1].value
            /\ Len(statements[1].expression.arguments) = WrittenArguments(body)


\* the cursor value at which peek() is the first END_OF_FILE of the list
FirstEndOfFile ==
    CHOOSE i \in 0..(Len(tokens_) - 1) :
        /\ tokens_[i + 1].type = "END_OF_FILE"
        /\ \A k \in 1..i : tokens_[k].type # "END_OF_FILE"

\* the locations of the tokens in front of the cursor
LocationsBefore(cur) == {tokens_[k].location : k \in 1..cur}

\* the cursor is inside the list and not behind the first END_OF_FILE, so
\* peek() reads a token of the list; and wherever previous() has been read
\* (for the location of a statement that was built, and in error() at the end
\* of the list) the cursor was not 0 and the token read is one of the list
CursorInList ==
    parsePc # "idle" =>
        /\ 0 <= pcurrent_
        /\ pcurrent_ <= FirstEndOfFile
        /\ pcurrent_ + 1 \in DOMAIN tokens_
        /\ statements # <<>> => pcurrent_ >= 1
        /\ \A i \in 1..Len(statements) : statements[i].location \in LocationsBefore(pcurrent_)
        /\ (parsePc = "escaped" /\ isAtEnd(pcurrent_)) => pcurrent_ >= 1

\* the cursor never moves back, so all the values it takes while a
\* statement is parsed lie between the one before and the one after
CursorMovesForward == pcurrent_ <= pcurrent_'

\* C26: while parse() runs on a list that ends with END_OF_FILE the cursor
\* is at least 0 and at most at the first END_OF_FILE, so peek() reads
\* inside the list, and previous() is never read with the cursor at 0
C26_CursorInBounds == []CursorInList /\ [][CursorMovesForward]_vars

\* C26 witness: a statement was parsed and the next one ran into the end of
\* the list, where error() read previous()
C26_Witness ==
    /\ parsePc = "escaped"
    /\ statements # <<>>
    /\ isAtEnd(pcurrent_)
    /\ pcurrent_ = Len(tokens_) - 1

\* a statement parsed from any token of the list but END_OF_FILE is thrown
\* out of or ends behind the token it started at: so does every iteration
\* of the loop of parseBlockStatement
StatementsConsume ==
    (parsePc = "loop" /\ pcurrent_ = 0) =>
        \A cur \in 0..(Len(tokens_) - 1) :
            ~isAtEnd(cur) => \E stmt \in {parseStatement(cur)} : stmt.ok => stmt.cur > cur

\* an iteration of the loop of parse() takes a token or ends the loop, and
\* the loop does not hang: at the end of the list it is left
LoopProgress ==
    parsePc = "loop" =>
        \/ pcurrent_' > pcurrent_ /\ pcurrent_' <= FirstEndOfFile
        \/ parsePc' \in {"done", "escaped"}

\* C27: parse() terminates on every list that ends with END_OF_FILE: every
\* iteration of the statement loops of parse() and parseBlockStatement
\* takes at least one token or ends the loop, also when the offending token
\* is one synchronize() stops in front of, such as `for`
C27_ParseTerminates ==
    /\ []StatementsConsume
    /\ [](parsePc = "loop" => (ENABLED ParseStep \/ ENABLED ParseFinish))
    /\ [][LoopProgress]_vars

\* C27 witness: parse() has ended on a list whose second statement starts
\* with `for`
C27_Witness ==
    /\ parsePc = "escaped"
    /\ Len(statements) = 1
    /\ peek(pcurrent_).type = "FOR"


\* ---------------------------------------------------------------------------
\* Semantic analysis (Semantic.cpp)
\* ---------------------------------------------------------------------------

\* the statements one analyze() visits, and the constructs open at once
MaxStatements == 3
MaxNesting == 3

Symbol(name, type, isFunction) ==
    [name |-> name, type |-> type, isFunction |-> isFunction,
     parameterTypes |-> <<>>, returnType |-> "VOID"]

FunctionSymbol(name, type, parameterTypes, returnType) ==
    [Symbol(name, type, TRUE) EXCEPT !.parameterTypes = parameterTypes,
                                     !.returnType = returnType]

nullptr == [name |-> <<>>, isNull |-> TRUE]

EmptyScope == [name \in {} |-> nullptr]

enterScope(scopes) == Append(scopes, EmptyScope)

\* a faulty exitScope: the scope stays on the stack
exitScope_KeepsScope(scopes) == scopes

exitScope(scopes) ==
    IF Len(scopes) > 1 THEN SubSeq(scopes, 1, Len(scopes) - 1) ELSE scopes

lookupCurrentScope(scopes, name) ==
    IF name \in DOMAIN scopes[Len(scopes)] THEN scopes[Len(scopes)][name] ELSE nullptr

\* a faulty insert: the symbol goes into the global scope
insert_IntoGlobalScope(scopes, name, symbol) ==
    [inserted |-> TRUE,
     scopes |-> [scopes EXCEPT ![1] =
                   [n \in DOMAIN scopes[1] \cup {name} |->
                       IF n = name THEN symbol ELSE scopes[1][n]]]]

\* insert returns whether the symbol went in, and the table after the call
insert(scopes, name, symbol) ==
    IF lookupCurrentScope(scopes, name) # nullptr
    THEN [inserted |-> FALSE, scopes |-> scopes]
    ELSE [inserted |-> TRUE,
          scopes |-> [scopes EXCEPT ![Len(scopes)] =
                        [n \in DOMAIN scopes[Len(scopes)] \cup {name} |->
                            IF n = name THEN symbol ELSE scopes[Len(scopes)][n]]]]

RECURSIVE LookupFrom(_, _, _)
LookupFrom(scopes, name, i) ==
    IF i = 0 THEN nullptr
    ELSE IF name \in DOMAIN scopes[i] THEN scopes[i][name]
    ELSE LookupFrom(scopes, name, i - 1)

lookup(scopes, name) == LookupFrom(scopes, name, Len(scopes))

PrintName == <<"p", "r", "i", "n", "t">>
InputName == <<"i", "n", "p", "u", "t">>
SqrtName == <<"s", "q", "r", "t">>

registerPrintFunction(scopes) ==
    insert(scopes, PrintName,
           FunctionSymbol(PrintName, "FUNCTION", <<"STRING">>, "VOID")).scopes

registerInputFunction(scopes) ==
    insert(scopes, InputName, FunctionSymbol(InputName, "FUNCTION", <<>>, "STRING")).scopes

registerMathFunctions(scopes) ==
    insert(scopes, SqrtName, FunctionSymbol(SqrtName, "FUNCTION", <<"FLOAT">>, "FLOAT")).scopes

registerBuiltins(scopes) ==
    registerMathFunctions(registerInputFunction(registerPrintFunction(scopes)))

\* SymbolTable::SymbolTable
SymbolTableNew == enterScope(<<>>)

dataTypeToString(type) ==
    CASE type = "VOID" -> "void"
      [] type = "INT" -> "int"
      [] type = "FLOAT" -> "float"
      [] type = "BOOL" -> "bool"
      [] type = "STRING" -> "string"
      [] type = "ARRAY" -> "array"
      [] type = "FUNCTION" -> "function"
      [] OTHER -> "unknown"

\* a faulty isCompatible: BOOL converts to INT as well
isCompatible_BoolToInt(from, to) ==
    \/ from = to
    \/ from = "UNKNOWN" \/ to = "UNKNOWN"
    \/ from \in {"INT", "FLOAT", "BOOL"} /\ to \in {"INT", "FLOAT"}

isCompatible(from, to) ==
    \/ from = to
    \/ from = "UNKNOWN" \/ to = "UNKNOWN"
    \/ from = "INT" /\ to = "FLOAT"
    \/ from = "FLOAT" /\ to = "INT"

\* a faulty getResultType: arithmetic accepts any two operands of one type
getResultType_SameTypeArithmetic(op, left, right) ==
    CASE op \in {"ADD", "SUBTRACT", "MULTIPLY", "DIVIDE", "MODULO"} ->
            IF left = right THEN left
            ELSE IF left \in {"INT", "FLOAT"} /\ right \in {"INT", "FLOAT"} THEN "FLOAT"
            ELSE "UNKNOWN"
      [] op \in {"EQUAL", "NOT_EQUAL", "LESS", "LESS_EQUAL", "GREATER", "GREATER_EQUAL"} ->
            "BOOL"
      [] op \in {"AND", "OR"} ->
            IF left = "BOOL" /\ right = "BOOL" THEN "BOOL" ELSE "UNKNOWN"
      [] OTHER -> "UNKNOWN"

getResultType(op, left, right) ==
    CASE op \in {"ADD", "SUBTRACT", "MULTIPLY", "DIVIDE", "MODULO"} ->
            IF left = "INT" /\ right = "INT" THEN "INT"
            ELSE IF left \in {"INT", "FLOAT"} /\ right \in {"INT", "FLOAT"}
            THEN (IF left = "FLOAT" \/ right = "FLOAT" THEN "FLOAT" ELSE "INT")
            ELSE "UNKNOWN"
      [] op \in {"EQUAL", "NOT_EQUAL", "LESS", "LESS_EQUAL", "GREATER", "GREATER_EQUAL"} ->
            "BOOL"
      [] op \in {"AND", "OR"} ->
            IF left = "BOOL" /\ right = "BOOL" THEN "BOOL" ELSE "UNKNOWN"
      [] OTHER -> "UNKNOWN"

getUnaryResultType(op, operand) ==
    CASE op = "SUBTRACT" -> IF operand \in {"INT", "FLOAT"} THEN operand ELSE "UNKNOWN"
      [] op = "NOT" -> IF operand = "BOOL" THEN "BOOL" ELSE "UNKNOWN"
      [] OTHER -> "UNKNOWN"

\* reportError appends one message; a message is the sequence of the pieces
\* the code concatenates, and the location prefix is left out
reportError(errors, message) == Append(errors, message)

\* std::to_string of a natural number
RECURSIVE to_string(_)
to_string(n) ==
    IF n < 10
    THEN CASE n = 0 -> "0" [] n = 1 -> "1" [] n = 2 -> "2" [] n = 3 -> "3" [] n = 4 -> "4"
           [] n = 5 -> "5" [] n = 6 -> "6" [] n = 7 -> "7" [] n = 8 -> "8" [] n = 9 -> "9"
    ELSE to_string(n \div 10) \o to_string(n % 10)

\* an expression visitor returns the currentExpressionType_ it leaves and the
\* error list after it
Checked(type, errors) == [type |-> type, errors |-> errors]

RECURSIVE checkExpression(_, _, _), ArgumentsCheck(_, _, _, _, _)

visitLiteralExpression(expr, scopes, errors) == Checked(expr.type, errors)

visitVariableExpression(expr, scopes, errors) ==
    LET symbol == lookup(scopes, expr.name)
    IN  IF symbol = nullptr
        THEN Checked("UNKNOWN", reportError(errors, <<"Undefined variable: ", expr.name>>))
        ELSE Checked(symbol.type, errors)

visitBinaryExpression(expr, scopes, errors) ==
    Only({Only({
        LET type == getResultType(expr.op, left.type, right.type)
        IN  IF type = "UNKNOWN"
            THEN Checked(type, reportError(right.errors,
                     <<"Invalid operation between types ", dataTypeToString(left.type),
                       " and ", dataTypeToString(right.type)>>))
            ELSE Checked(type, right.errors)
        : right \in {checkExpression(expr.right, scopes, left.errors)}})
        : left \in {checkExpression(expr.left, scopes, errors)}})

visitUnaryExpression(expr, scopes, errors) ==
    Only({
        LET type == getUnaryResultType(expr.op, operand.type)
        IN  IF type = "UNKNOWN"
            THEN Checked(type, reportError(operand.errors,
                     <<"Invalid unary operation on type ", dataTypeToString(operand.type)>>))
            ELSE Checked(type, operand.errors)
        : operand \in {checkExpression(expr.operand, scopes, errors)}})

visitAssignmentExpression(expr, scopes, errors) ==
    Only({
        LET symbol == lookup(scopes, expr.name)
        IN  IF symbol = nullptr
            THEN Checked("UNKNOWN",
                         reportError(value.errors, <<"Undefined variable: ", expr.name>>))
            ELSE IF ~isCompatible(value.type, symbol.type)
            THEN Checked(symbol.type, reportError(value.errors,
                     <<"Cannot assign ", dataTypeToString(value.type),
                       " to variable of type ", dataTypeToString(symbol.type)>>))
            ELSE Checked(symbol.type, value.errors)
        : value \in {checkExpression(expr.value, scopes, errors)}})

\* the argument loop of visitFunctionCallExpression, from argument i on
ArgumentsCheck(expr, symbol, scopes, errors, i) ==
    IF i > Len(expr.arguments) THEN errors
    ELSE Only({
        ArgumentsCheck(expr, symbol, scopes,
            IF ~isCompatible(arg.type, symbol.parameterTypes[i])
            THEN reportError(arg.errors, <<"Argument ", to_string(i), " type mismatch">>)
            ELSE arg.errors,
            i + 1)
        : arg \in {checkExpression(expr.arguments[i], scopes, errors)}})

visitFunctionCallExpression(expr, scopes, errors) ==
    LET symbol == lookup(scopes, expr.name)
    IN  IF symbol = nullptr \/ ~symbol.isFunction
        THEN Checked("UNKNOWN", reportError(errors, <<"Undefined function: ", expr.name>>))
        ELSE IF Len(expr.arguments) # Len(symbol.parameterTypes)
        THEN Checked("UNKNOWN", reportError(errors,
                 <<"Function ", expr.name, " expects ",
                   to_string(Len(symbol.parameterTypes)), " arguments, got ",
                   to_string(Len(expr.arguments))>>))
        ELSE Checked(symbol.returnType, ArgumentsCheck(expr, symbol, scopes, errors, 1))

\* expr->accept(*this); return currentExpressionType_
checkExpression(expr, scopes, errors) ==
    CASE expr.kind = "Literal" -> visitLiteralExpression(expr, scopes, errors)
      [] expr.kind = "Variable" -> visitVariableExpression(expr, scopes, errors)
      [] expr.kind = "Binary" -> visitBinaryExpression(expr, scopes, errors)
      [] expr.kind = "Unary" -> visitUnaryExpression(expr, scopes, errors)
      [] expr.kind = "Assignment" -> visitAssignmentExpression(expr, scopes, errors)
      [] expr.kind = "Call" -> visitFunctionCallExpression(expr, scopes, errors)


\* ---- the analyzer as a machine: the visitor's call stack is `frames`, one
\* ---- frame per statement handler that is waiting for a child statement

NoVisit == [kind |-> "None"]

\* the activation record of a handler: the node it visits (kind, name,
\* parameters), where in the handler it is, its saved locals, and the scope
\* depth at its entry
Frame(kind, phase, name, parameters, wasInFunction, wasReturnType, wasInLoop, depth0) ==
    [kind |-> kind, phase |-> phase, name |-> name, parameters |-> parameters,
     wasInFunction |-> wasInFunction, wasReturnType |-> wasReturnType,
     wasInLoop |-> wasInLoop, depth0 |-> depth0]

PlainFrame(kind, phase, depth0) == Frame(kind, phase, <<>>, <<>>, FALSE, "VOID", FALSE, depth0)

Top == frames[Len(frames)]

Pop(frs) == SubSeq(frs, 1, Len(frs) - 1)

\* where a handler is once the child statement it waited for has returned
NextPhase(fr) ==
    CASE fr.phase = "loop" -> "loop"
      [] fr.phase = "then" -> "else"
      [] OTHER -> "exit"

\* the call stack after the statement visited from its top frame has returned
StatementDone(frs) ==
    IF frs = <<>> THEN frs ELSE [frs EXCEPT ![Len(frs)].phase = NextPhase(frs[Len(frs)])]

\* the handler on top waits for a statement: the next one of a list, a
\* branch of an if, or the body of a while
AwaitsStatement ==
    /\ semPc = "visiting"
    /\ visited < MaxStatements
    /\ Top.kind # "function"
    /\ Top.phase \in {"loop", "then", "else", "body"}

\* the handler on top waits for a block: as above, or the body of a function
\* declaration, which parseFunctionDeclaration makes a block
AwaitsBlock ==
    /\ semPc = "visiting"
    /\ visited < MaxStatements
    /\ Top.phase \in {"loop", "then", "else", "body"}

CanNest == Len(frames) <= MaxNesting

\* what the last statement visit was given and found
Visit(kind, name, parameters) ==
    [kind |-> kind, name |-> name, parameters |-> parameters,
     scopesBefore |-> scopes_, errorsBefore |-> errors_]

\* the nodes the programs are made of
SemNames == {<<"a">>, <<"b">>}
IntLiteral == LiteralExpression(<<"1">>, "INT", StartLocation)
BoolLiteral == LiteralExpression(<<"t", "r", "u", "e">>, "BOOL", StartLocation)
StringLiteral == LiteralExpression(<<"s">>, "STRING", StartLocation)
VariableA == VariableExpression(<<"a">>, StartLocation)
VariableB == VariableExpression(<<"b">>, StartLocation)
Initializers == {Null, IntLiteral, BoolLiteral, VariableA}
AnnotatedTypes == {"UNKNOWN", "INT", "BOOL"}
StatementExpressionSet ==
    {VariableB,
     AssignmentExpression(<<"a">>, IntLiteral, StartLocation),
     BinaryExpression(VariableA, "ADD", IntLiteral, StartLocation),
     UnaryExpression("NOT", VariableA, StartLocation),
     FunctionCallExpression(PrintName, <<StringLiteral>>, StartLocation),
     FunctionCallExpression(<<"a">>, <<IntLiteral>>, StartLocation)}
ReturnValues == {Null, IntLiteral}
ReturnTypes == {"VOID", "INT"}
Parameter(name, type) == [first |-> name, second |-> type]
ParameterLists ==
    {<<>>,
     <<Parameter(<<"a">>, "INT")>>,
     <<Parameter(<<"a">>, "INT"), Parameter(<<"a">>, "BOOL")>>,
     <<Parameter(<<"a">>, "INT"), Parameter(<<"b">>, "BOOL")>>}
Conditions == {BoolLiteral, VariableA}

\* SemanticAnalyzer::SemanticAnalyzer, and analyze() entered
SemanticAnalyzerNew ==
    /\ scopes_ = registerBuiltins(SymbolTableNew)
    /\ errors_ = <<>>
    /\ inFunction_ = FALSE
    /\ currentFunctionReturnType_ = "VOID"
    /\ inLoop_ = FALSE
    /\ currentExpressionType_ = "UNKNOWN"

\* visitBlockStatement up to its first statement
VisitBlockStatement ==
    /\ AwaitsBlock
    /\ CanNest
    /\ scopes_' = enterScope(scopes_)
    /\ frames' = Append(frames, PlainFrame("block", "loop", Len(scopes_)))
    /\ visited' = visited + 1
    /\ lastVisit' = Visit("Block", <<>>, <<>>)
    /\ UNCHANGED <<errors_, inFunction_, currentFunctionReturnType_, inLoop_,
                   currentExpressionType_, semPc>>

\* visitBlockStatement after its last statement
ExitBlock ==
    /\ semPc = "visiting"
    /\ Top.kind = "block"
    /\ scopes_' = exitScope(scopes_)
    /\ frames' = StatementDone(Pop(frames))
    /\ lastVisit' = NoVisit
    /\ UNCHANGED <<errors_, inFunction_, currentFunctionReturnType_, inLoop_,
                   currentExpressionType_, visited, semPc>>

VisitVariableDeclaration(name, type, initializer) ==
    /\ AwaitsStatement
    /\ \E init \in {IF initializer = Null
                    THEN Checked("UNKNOWN", errors_)
                    ELSE checkExpression(initializer, scopes_, errors_)} :
       LET declaredType == IF type = "UNKNOWN" THEN init.type ELSE type
           checked == IF type # "UNKNOWN" /\ init.type # "UNKNOWN"
                         /\ ~isCompatible(init.type, type)
                      THEN reportError(init.errors,
                               <<"Cannot initialize ", dataTypeToString(type), " with ",
                                 dataTypeToString(init.type)>>)
                      ELSE init.errors
           inserted == insert(scopes_, name, Symbol(name, declaredType, FALSE))
       IN  /\ scopes_' = inserted.scopes
           /\ errors_' = IF ~inserted.inserted
                         THEN reportError(checked, <<"Variable already declared: ", name>>)
                         ELSE checked
           /\ currentExpressionType_' =
                 IF initializer = Null THEN currentExpressionType_ ELSE init.type
    /\ frames' = StatementDone(frames)
    /\ visited' = visited + 1
    /\ lastVisit' = Visit("VarDecl", name, <<>>)
    /\ UNCHANGED <<inFunction_, currentFunctionReturnType_, inLoop_, semPc>>

\* the parameter loop of visitFunctionDeclaration: the result of insert is
\* dropped
RECURSIVE InsertParameters(_, _, _)
InsertParameters(scopes, parameters, i) ==
    IF i > Len(parameters) THEN scopes
    ELSE InsertParameters(
             insert(scopes, parameters[i].first,
                    Symbol(parameters[i].first, parameters[i].second, FALSE)).scopes,
             parameters, i + 1)

ParameterTypes(parameters) == [i \in 1..Len(parameters) |-> parameters[i].second]

\* visitFunctionDeclaration up to its body: a name bound in the current
\* scope ends the visit with an error, the body unvisited
VisitFunctionDeclaration(name, returnType, parameters) ==
    /\ AwaitsStatement
    /\ \E inserted \in {insert(scopes_, name,
                               FunctionSymbol(name, returnType, ParameterTypes(parameters),
                                              returnType))} :
          IF ~inserted.inserted
          THEN /\ errors_' = reportError(errors_, <<"Function already declared: ", name>>)
               /\ frames' = StatementDone(frames)
               /\ UNCHANGED <<scopes_, inFunction_, currentFunctionReturnType_>>
          ELSE /\ CanNest
               /\ scopes_' = InsertParameters(enterScope(inserted.scopes), parameters, 1)
               /\ inFunction_' = TRUE
               /\ currentFunctionReturnType_' = returnType
               /\ frames' = Append(frames,
                                   Frame("function", "body", name, parameters, inFunction_,
                                         currentFunctionReturnType_, FALSE, Len(scopes_)))
               /\ UNCHANGED errors_
    /\ visited' = visited + 1
    /\ lastVisit' = Visit("FuncDecl", name, parameters)
    /\ UNCHANGED <<inLoop_, currentExpressionType_, semPc>>

\* visitFunctionDeclaration after its body
ExitFunction ==
    /\ semPc = "visiting"
    /\ Top.kind = "function"
    /\ Top.phase = "exit"
    /\ inFunction_' = Top.wasInFunction
    /\ currentFunctionReturnType_' = Top.wasReturnType
    /\ scopes_' = exitScope(scopes_)
    /\ frames' = StatementDone(Pop(frames))
    /\ lastVisit' = NoVisit
    /\ UNCHANGED <<errors_, inLoop_, currentExpressionType_, visited, semPc>>

\* visitIfStatement up to its then branch
VisitIfStatement(condition) ==
    /\ AwaitsStatement
    /\ CanNest
    /\ \E cond \in {checkExpression(condition, scopes_, errors_)} :
          /\ errors_' = IF cond.type # "BOOL"
                        THEN reportError(cond.errors, <<"If condition must be boolean">>)
                        ELSE cond.errors
          /\ currentExpressionType_' = cond.type
    /\ frames' = Append(frames, PlainFrame("if", "then", Len(scopes_)))
    /\ visited' = visited + 1
    /\ lastVisit' = Visit("If", <<>>, <<>>)
    /\ UNCHANGED <<scopes_, inFunction_, currentFunctionReturnType_, inLoop_, semPc>>

\* visitIfStatement after its last branch: the then branch when there is no
\* else branch
ExitIf ==
    /\ semPc = "visiting"
    /\ Top.kind = "if"
    /\ Top.phase \in {"else", "exit"}
    /\ frames' = StatementDone(Pop(frames))
    /\ lastVisit' = NoVisit
    /\ UNCHANGED <<scopes_, errors_, inFunction_, currentFunctionReturnType_, inLoop_,
                   currentExpressionType_, visited, semPc>>

\* visitWhileStatement up to its body
VisitWhileStatement(condition) ==
    /\ AwaitsStatement
    /\ CanNest
    /\ \E cond \in {checkExpression(condition, scopes_, errors_)} :
          /\ errors_' = IF cond.type # "BOOL"
                        THEN reportError(cond.errors, <<"While condition must be boolean">>)
                        ELSE cond.errors
          /\ currentExpressionType_' = cond.type
    /\ inLoop_' = TRUE
    /\ frames' = Append(frames,
                        Frame("while", "body", <<>>, <<>>, FALSE, "VOID", inLoop_,
                              Len(scopes_)))
    /\ visited' = visited + 1
    /\ lastVisit' = Visit("While", <<>>, <<>>)
    /\ UNCHANGED <<scopes_, inFunction_, currentFunctionReturnType_, semPc>>

\* visitWhileStatement after its body
ExitWhile ==
    /\ semPc = "visiting"
    /\ Top.kind = "while"
    /\ Top.phase = "exit"
    /\ inLoop_' = Top.wasInLoop
    /\ frames' = StatementDone(Pop(frames))
    /\ lastVisit' = NoVisit
    /\ UNCHANGED <<scopes_, errors_, inFunction_, currentFunctionReturnType_,
                   currentExpressionType_, visited, semPc>>

VisitReturnStatement(value) ==
    /\ AwaitsStatement
    /\ IF ~inFunction_
       THEN /\ errors_' = reportError(errors_, <<"Return statement outside function">>)
            /\ UNCHANGED currentExpressionType_
       ELSE \E ret \in {IF value = Null
                        THEN Checked("VOID", errors_)
                        ELSE checkExpression(value, scopes_, errors_)} :
               /\ errors_' = IF ~isCompatible(ret.type, currentFunctionReturnType_)
                             THEN reportError(ret.errors, <<"Return type mismatch">>)
                             ELSE ret.errors
               /\ currentExpressionType_' =
                     IF value = Null THEN currentExpressionType_ ELSE ret.type
    /\ frames' = StatementDone(frames)
    /\ visited' = visited + 1
    /\ lastVisit' = Visit("Return", <<>>, <<>>)
    /\ UNCHANGED <<scopes_, inFunction_, currentFunctionReturnType_, inLoop_, semPc>>

VisitExpressionStatement(expression) ==
    /\ AwaitsStatement
    /\ \E expr \in {checkExpression(expression, scopes_, errors_)} :
          /\ errors_' = expr.errors
          /\ currentExpressionType_' = expr.type
    /\ frames' = StatementDone(frames)
    /\ visited' = visited + 1
    /\ lastVisit' = Visit("ExprStmt", <<>>, <<>>)
    /\ UNCHANGED <<scopes_, inFunction_, currentFunctionReturnType_, inLoop_, semPc>>

\* visitProgram after its last statement, and the return of analyze()
AnalyzeReturn ==
    /\ semPc = "visiting"
    /\ Top.kind = "program"
    /\ semPc' = "done"
    /\ frames' = <<>>
    /\ lastVisit' = NoVisit
    /\ UNCHANGED <<scopes_, errors_, inFunction_, currentFunctionReturnType_, inLoop_,
                   currentExpressionType_, visited>>

\* analyze()'s result
hasErrors == errors_ # <<>>

InitSem ==
    /\ LexerIdle
    /\ RestIdle
    /\ ParserIdle
    /\ SemanticAnalyzerNew
    /\ frames = <<PlainFrame("program", "loop", 1)>>
    /\ visited = 0
    /\ semPc = "visiting"
    /\ lastVisit = NoVisit

NextSem ==
    \/ VisitBlockStatement /\ UNCHANGED <<lexVars, parseVars, restVars>>
    \/ ExitBlock /\ UNCHANGED <<lexVars, parseVars, restVars>>
    \/ \E name \in SemNames, type \in AnnotatedTypes, initializer \in Initializers :
          VisitVariableDeclaration(name, type, initializer) /\ UNCHANGED <<lexVars, parseVars, restVars>>
    \/ \E name \in SemNames, returnType \in ReturnTypes, parameters \in ParameterLists :
          VisitFunctionDeclaration(name, returnType, parameters)
          /\ UNCHANGED <<lexVars, parseVars, restVars>>
    \/ ExitFunction /\ UNCHANGED <<lexVars, parseVars, restVars>>
    \/ \E condition \in Conditions :
          VisitIfStatement(condition) /\ UNCHANGED <<lexVars, parseVars, restVars>>
    \/ ExitIf /\ UNCHANGED <<lexVars, parseVars, restVars>>
    \/ \E condition \in Conditions :
          VisitWhileStatement(condition) /\ UNCHANGED <<lexVars, parseVars, restVars>>
    \/ ExitWhile /\ UNCHANGED <<lexVars, parseVars, restVars>>
    \/ \E value \in ReturnValues :
          VisitReturnStatement(value) /\ UNCHANGED <<lexVars, parseVars, restVars>>
    \/ \E expression \in StatementExpressionSet :
          VisitExpressionStatement(expression) /\ UNCHANGED <<lexVars, parseVars, restVars>>
    \/ AnalyzeReturn /\ UNCHANGED <<lexVars, parseVars, restVars>>

SpecSem == InitSem /\ [][NextSem]_vars


\* ---------------------------------------------------------------------------
\* Claims about the semantic analyzer
\* ---------------------------------------------------------------------------

\* the names bound in the innermost scope of a table
CurrentNames(scopes) == DOMAIN scopes[Len(scopes)]

\* the errors the last statement visit recorded
NewErrors == SubSeq(errors_, Len(lastVisit.errorsBefore) + 1, Len(errors_))

\* the last visit recorded a redeclaration error for a name
RedeclarationReported(name) ==
    \E i \in 1..Len(NewErrors) :
        /\ NewErrors[i][1] \in {"Variable already declared: ", "Function already declared: "}
        /\ NewErrors[i][2] = name

\* a parameter list that binds one name twice
DuplicateParameters(parameters) ==
    \E i, j \in 1..Len(parameters) : i < j /\ parameters[i].first = parameters[j].first

\* C9: a variable or function declaration whose name is bound in the
\* innermost scope records a redeclaration error and leaves the table as it
\* was; one whose name is bound at most in enclosing scopes records none, is
\* bound in the innermost scope afterwards and leaves the enclosing scopes as
\* they were; and a function declaration whose parameter list binds a name
\* twice records an error for the second parameter
C9_RedeclarationIsAnError ==
    lastVisit.kind \in {"VarDecl", "FuncDecl"} =>
        LET before == lastVisit.scopesBefore
            name == lastVisit.name
        IN  IF name \in CurrentNames(before)
            THEN /\ RedeclarationReported(name)
                 /\ scopes_ = before
            ELSE /\ ~RedeclarationReported(name)
                 /\ name \in DOMAIN scopes_[Len(before)]
                 /\ scopes_[Len(before)][name].isFunction = (lastVisit.kind = "FuncDecl")
                 /\ \A i \in 1..(Len(before) - 1) : scopes_[i] = before[i]
                 /\ DuplicateParameters(lastVisit.parameters) => NewErrors # <<>>

\* the frames of the handlers that have entered a scope
ScopeFrames == {i \in 1..Len(frames) : frames[i].kind \in {"block", "function"}}

\* the depth is at least 1 during analysis, it is one more than the number
\* of blocks and function declarations being visited, and it is 1 when
\* analyze() has returned
C10_DepthInvariant ==
    semPc # "idle" =>
        /\ Len(scopes_) >= 1
        /\ semPc = "visiting" => Len(scopes_) = 1 + Cardinality(ScopeFrames)
        /\ semPc = "done" => Len(scopes_) = 1

\* a block or function declaration that returns leaves the depth of its
\* entry, and a statement visit that returns at once (a function
\* redeclaration among them) leaves the depth unchanged
C10_ExitRestoresDepth ==
    /\ (semPc = "visiting" /\ Len(frames') < Len(frames) /\ Top.kind \in {"block", "function"})
          => Len(scopes_') = Top.depth0
    /\ (semPc = "visiting" /\ Len(frames') = Len(frames)) => Len(scopes_') = Len(scopes_)

\* C10: scope bookkeeping is balanced, with or without diagnostics: the
\* depth after a block or function declaration is the depth before it, the
\* depth is at least 1 throughout, and it is 1 when analyze() returns
C10_ScopesBalanced == []C10_DepthInvariant /\ [][C10_ExitRestoresDepth]_vars

\* C10 witness: analyze() has returned from a program with a function whose
\* body drew a diagnostic, and only the global scope is left
C10_Witness ==
    /\ semPc = "done"
    /\ visited = 3
    /\ errors_ = << <<"Return type mismatch">> >>
    /\ Len(scopes_) = 1

\* the handler on top is the block that is the body of a function
\* declaration: its statements are the top level of the function body
InFunctionBody ==
    /\ semPc = "visiting"
    /\ Len(frames) >= 2
    /\ Top.kind = "block"
    /\ frames[Len(frames) - 1].kind = "function"

\* C24: a function declaration opens one scope for its body, which holds
\* the parameters and the top level declarations of the body: while the top
\* level of the body is analyzed the depth is the depth at the declaration
\* plus 1, and a variable declared there under the name of a parameter is
\* reported as a redeclaration
C24_OneScopeForFunctionBody ==
    InFunctionBody =>
        /\ Len(scopes_) = frames[Len(frames) - 1].depth0 + 1
        /\ (/\ lastVisit.kind = "VarDecl"
            /\ \E k \in 1..Len(frames[Len(frames) - 1].parameters) :
                  frames[Len(frames) - 1].parameters[k].first = lastVisit.name)
              => RedeclarationReported(lastVisit.name)

\* ---------------------------------------------------------------------
\* A client of one SymbolTable: it starts from a table, enters and leaves
\* scopes in matched pairs and inserts inside the scopes it has entered
\* ---------------------------------------------------------------------

MaxCalls == 6

TableNames == SemNames \cup {PrintName}

\* a name no call inserts
FreshName == <<"c">>

TableSymbols(name) ==
    {Symbol(name, "INT", FALSE), Symbol(name, "BOOL", FALSE),
     FunctionSymbol(name, "FUNCTION", <<>>, "VOID")}

\* the table of a new analyzer, the same with a global, and the same inside
\* a scope that binds a second name
InitialTables ==
    LET fresh == registerBuiltins(SymbolTableNew)
        global == insert(fresh, <<"a">>, Symbol(<<"a">>, "INT", FALSE)).scopes
        inner == insert(enterScope(global), <<"b">>, Symbol(<<"b">>, "BOOL", FALSE)).scopes
    IN  {fresh, global, inner}

\* the scopes the client has entered and not left
Entered == Len(scopes_) - Len(initialTable)

TableEnterScope ==
    /\ Len(calls) < MaxCalls
    /\ scopes_' = enterScope(scopes_)
    /\ calls' = Append(calls, "enterScope")
    /\ UNCHANGED initialTable

\* the client leaves only a scope it has entered
TableExitScope ==
    /\ Len(calls) < MaxCalls
    /\ Entered > 0
    /\ scopes_' = exitScope(scopes_)
    /\ calls' = Append(calls, "exitScope")
    /\ UNCHANGED initialTable

\* the client inserts only inside a scope it has entered
TableInsert(name, symbol) ==
    /\ Len(calls) < MaxCalls
    /\ Entered > 0
    /\ scopes_' = insert(scopes_, name, symbol).scopes
    /\ calls' = Append(calls, "insert")
    /\ UNCHANGED initialTable

InitTable ==
    /\ LexerIdle
    /\ ParserIdle
    /\ GenIdle
    /\ DriverIdle
    /\ initialTable \in InitialTables
    /\ scopes_ = initialTable
    /\ calls = <<>>
    /\ errors_ = <<>>
    /\ inFunction_ = FALSE
    /\ currentFunctionReturnType_ = "VOID"
    /\ inLoop_ = FALSE
    /\ currentExpressionType_ = "UNKNOWN"
    /\ frames = <<>>
    /\ visited = 0
    /\ semPc = "idle"
    /\ lastVisit = NoVisit

tableRest ==
    <<lexVars, parseVars, errors_, inFunction_, currentFunctionReturnType_, inLoop_,
      currentExpressionType_, frames, visited, semPc, lastVisit, genVars, driverVars>>

NextTable ==
    \/ TableEnterScope /\ UNCHANGED tableRest
    \/ TableExitScope /\ UNCHANGED tableRest
    \/ \E name \in TableNames : \E symbol \in TableSymbols(name) :
          TableInsert(name, symbol) /\ UNCHANGED tableRest

SpecTable == InitTable /\ [][NextTable]_vars

\* C11: whenever the client has left every scope it entered, lookup of any
\* name, found or not, returns what it returned on the table the client
\* started from; and the scopes of that table are never touched
C11_LookupRoundTrip ==
    initialTable # <<>> =>
        /\ SubSeq(scopes_, 1, Len(initialTable)) = initialTable
        /\ Entered = 0 =>
              \A name \in TableNames \cup {InputName, SqrtName, FreshName} :
                  lookup(scopes_, name) = lookup(initialTable, name)

\* C11 witness: the client entered two nested scopes, shadowed a name in
\* each and left both
C11_Witness ==
    /\ calls = <<"enterScope", "insert", "enterScope", "insert", "exitScope", "exitScope">>
    /\ Entered = 0
    /\ lookup(initialTable, <<"a">>) # nullptr

\* ---------------------------------------------------------------------
\* The analyzer over a whole program: SemanticAnalyzer::analyze on the
\* Program the parser hands over, one top level statement per step.  A
\* statement visitor takes the analyzer's fields and gives them back as
\* they are when the visitor returns.
\* ---------------------------------------------------------------------

Analyzer(scopes, errors, inFunction, returnType, inLoop, type) ==
    [scopes_ |-> scopes, errors_ |-> errors, inFunction_ |-> inFunction,
     currentFunctionReturnType_ |-> returnType, inLoop_ |-> inLoop,
     currentExpressionType_ |-> type]

\* checkExpression inside a statement visitor
checkIn(expr, a) ==
    Only({[a EXCEPT !.errors_ = c.errors, !.currentExpressionType_ = c.type] :
            c \in {checkExpression(expr, a.scopes_, a.errors_)}})

report(a, message) == [a EXCEPT !.errors_ = reportError(a.errors_, message)]

RECURSIVE accept(_, _), acceptAll(_, _, _)

\* for (const auto& statement : statements) statement->accept(*this)
acceptAll(stmts, a, i) ==
    IF i > Len(stmts) THEN a
    ELSE Only({acceptAll(stmts, b, i + 1) : b \in {accept(stmts[i], a)}})

acceptBlockStatement(stmt, a) ==
    Only({[b EXCEPT !.scopes_ = exitScope(b.scopes_)] :
            b \in {acceptAll(stmt.statements,
                             [a EXCEPT !.scopes_ = enterScope(a.scopes_)], 1)}})

acceptVariableDeclaration(stmt, a) ==
    Only({LET initializerType ==
                  IF stmt.initializer = Null THEN "UNKNOWN" ELSE b.currentExpressionType_
              declaredType ==
                  IF stmt.type = "UNKNOWN" THEN initializerType ELSE stmt.type
              checked ==
                  IF stmt.type # "UNKNOWN" /\ initializerType # "UNKNOWN"
                     /\ ~isCompatible(initializerType, stmt.type)
                  THEN report(b, <<"Cannot initialize ", dataTypeToString(stmt.type),
                                  " with ", dataTypeToString(initializerType)>>)
                  ELSE b
              inserted == insert(b.scopes_, stmt.name, Symbol(stmt.name, declaredType, FALSE))
          IN  IF ~inserted.inserted
              THEN report(checked, <<"Variable already declared: ", stmt.name>>)
              ELSE [checked EXCEPT !.scopes_ = inserted.scopes] :
          b \in {IF stmt.initializer = Null THEN a ELSE checkIn(stmt.initializer, a)}})

\* a faulty visitFunctionDeclaration: inFunction_ and the return type are
\* left as the body had them
acceptFunctionDeclaration_NoRestore(stmt, a) ==
    Only({IF ~inserted.inserted
          THEN report(a, <<"Function already declared: ", stmt.name>>)
          ELSE Only({[b EXCEPT !.scopes_ = exitScope(b.scopes_)] :
                       b \in {accept(stmt.body,
                                     [a EXCEPT !.scopes_ = InsertParameters(
                                                   enterScope(inserted.scopes),
                                                   stmt.parameters, 1),
                                               !.inFunction_ = TRUE,
                                               !.currentFunctionReturnType_ =
                                                   stmt.returnType])}}) :
          inserted \in {insert(a.scopes_, stmt.name,
                               FunctionSymbol(stmt.name, stmt.returnType,
                                              ParameterTypes(stmt.parameters),
                                              stmt.returnType))}})

acceptFunctionDeclaration(stmt, a) ==
    Only({IF ~inserted.inserted
          THEN report(a, <<"Function already declared: ", stmt.name>>)
          ELSE Only({[b EXCEPT !.inFunction_ = a.inFunction_,
                               !.currentFunctionReturnType_ = a.currentFunctionReturnType_,
                               !.scopes_ = exitScope(b.scopes_)] :
                       b \in {accept(stmt.body,
                                     [a EXCEPT !.scopes_ = InsertParameters(
                                                   enterScope(inserted.scopes),
                                                   stmt.parameters, 1),
                                               !.inFunction_ = TRUE,
                                               !.currentFunctionReturnType_ =
                                                   stmt.returnType])}}) :
          inserted \in {insert(a.scopes_, stmt.name,
                               FunctionSymbol(stmt.name, stmt.returnType,
                                              ParameterTypes(stmt.parameters),
                                              stmt.returnType))}})

acceptIfStatement(stmt, a) ==
    Only({Only({IF stmt.elseBranch = Null THEN t ELSE accept(stmt.elseBranch, t) :
                  t \in {accept(stmt.thenBranch,
                                IF c.currentExpressionType_ # "BOOL"
                                THEN report(c, <<"If condition must be boolean">>)
                                ELSE c)}}) :
          c \in {checkIn(stmt.condition, a)}})

acceptWhileStatement(stmt, a) ==
    Only({Only({[b EXCEPT !.inLoop_ = a.inLoop_] :
                  b \in {accept(stmt.body,
                                [(IF c.currentExpressionType_ # "BOOL"
                                  THEN report(c, <<"While condition must be boolean">>)
                                  ELSE c) EXCEPT !.inLoop_ = TRUE])}}) :
          c \in {checkIn(stmt.condition, a)}})

acceptReturnStatement(stmt, a) ==
    IF ~a.inFunction_
    THEN report(a, <<"Return statement outside function">>)
    ELSE Only({LET returnType ==
                       IF stmt.value = Null THEN "VOID" ELSE b.currentExpressionType_
               IN  IF ~isCompatible(returnType, a.currentFunctionReturnType_)
                   THEN report(b, <<"Return type mismatch">>)
                   ELSE b :
               b \in {IF stmt.value = Null THEN a ELSE checkIn(stmt.value, a)}})

acceptExpressionStatement(stmt, a) == checkIn(stmt.expression, a)

\* statement->accept(*this)
accept(stmt, a) ==
    CASE stmt.kind = "Block" -> acceptBlockStatement(stmt, a)
      [] stmt.kind = "VarDecl" -> acceptVariableDeclaration(stmt, a)
      [] stmt.kind = "FuncDecl" -> acceptFunctionDeclaration(stmt, a)
      [] stmt.kind = "If" -> acceptIfStatement(stmt, a)
      [] stmt.kind = "While" -> acceptWhileStatement(stmt, a)
      [] stmt.kind = "Return" -> acceptReturnStatement(stmt, a)
      [] stmt.kind = "ExprStmt" -> acceptExpressionStatement(stmt, a)

\* the analyzer's fields as one value
analyzer ==
    Analyzer(scopes_, errors_, inFunction_, currentFunctionReturnType_, inLoop_,
             currentExpressionType_)

\* visitProgram: one iteration of its loop
AnalyzeStatement ==
    /\ semPc = "program"
    /\ visited < Len(statements)
    /\ \E a \in {accept(statements[visited + 1], analyzer)} :
          /\ scopes_' = a.scopes_
          /\ errors_' = a.errors_
          /\ inFunction_' = a.inFunction_
          /\ currentFunctionReturnType_' = a.currentFunctionReturnType_
          /\ inLoop_' = a.inLoop_
          /\ currentExpressionType_' = a.currentExpressionType_
    /\ visited' = visited + 1
    /\ UNCHANGED <<frames, semPc, lastVisit>>

\* visitProgram after its last statement, and the return of analyze()
AnalyzeProgramReturn ==
    /\ semPc = "program"
    /\ visited = Len(statements)
    /\ semPc' = "done"
    /\ UNCHANGED <<scopes_, errors_, inFunction_, currentFunctionReturnType_, inLoop_,
                   currentExpressionType_, frames, visited, lastVisit>>

\* ---- the programs given to analyze()

DataTypes == {"VOID", "INT", "FLOAT", "BOOL", "STRING", "ARRAY", "FUNCTION", "UNKNOWN"}

ArithmeticOperators == {"ADD", "SUBTRACT", "MULTIPLY", "DIVIDE", "MODULO"}
ComparisonOperators ==
    {"EQUAL", "NOT_EQUAL", "LESS", "LESS_EQUAL", "GREATER", "GREATER_EQUAL"}
LogicalOperators == {"AND", "OR"}
UnaryOperators == {"SUBTRACT", "NOT"}

\* var <name>: <type>;
Declare(name, type) == VariableDeclaration(name, type, Null, StartLocation)

\* var a: L; var b: R; a <op> b;
BinaryProgram(left, op, right) ==
    <<Declare(<<"a">>, left), Declare(<<"b">>, right),
      ExpressionStatement(BinaryExpression(VariableA, op, VariableB, StartLocation),
                          StartLocation)>>

\* var a: T; var b: T; <op> a;
UnaryProgram(op, operand) ==
    <<Declare(<<"a">>, operand), Declare(<<"b">>, operand),
      ExpressionStatement(UnaryExpression(op, VariableA, StartLocation), StartLocation)>>

TypeRulePrograms ==
    {BinaryProgram(left, op, right) :
        left \in DataTypes, right \in DataTypes,
        op \in ArithmeticOperators \cup ComparisonOperators \cup LogicalOperators}
    \cup {UnaryProgram(op, operand) : op \in UnaryOperators, operand \in DataTypes}

\* var a: T; var b: S; a = b;
AssignmentProgram(to, from) ==
    <<Declare(<<"a">>, to), Declare(<<"b">>, from),
      ExpressionStatement(AssignmentExpression(<<"a">>, VariableB, StartLocation),
                          StartLocation)>>

\* var b: S; var a: T = b;
InitializationProgram(to, from) ==
    <<Declare(<<"b">>, from), VariableDeclaration(<<"a">>, to, VariableB, StartLocation)>>

AssignmentPrograms == {AssignmentProgram(to, from) : to \in DataTypes, from \in DataTypes}

\* the annotation is a type: without one the declaration carries UNKNOWN
InitializationPrograms ==
    {InitializationProgram(to, from) : to \in DataTypes \ {"UNKNOWN"}, from \in DataTypes}

Return(value) == ReturnStatement(value, StartLocation)

Block(stmts) == BlockStatement(stmts, StartLocation)

\* while (<condition>) { <body> }
While(condition, body) == WhileStatement(condition, Block(body), StartLocation)

\* function <name>(): <returnType> { <body> }
Function(name, returnType, body) ==
    FunctionDeclaration(name, returnType, <<>>, Block(body), StartLocation)

\* function f(): T { function g(): U { return u; } return v; } return w;
ReturnProgram(outerType, innerType, inner, outer, after) ==
    <<Function(<<"f">>, outerType,
               <<Function(<<"g">>, innerType, <<Return(inner)>>), Return(outer)>>),
      Return(after)>>

ReturnProgramTypes == {"VOID", "INT", "BOOL"}
ReturnProgramValues == {Null, IntLiteral, BoolLiteral}

ReturnPrograms ==
    {ReturnProgram(outerType, innerType, inner, outer, after) :
        outerType \in ReturnProgramTypes, innerType \in ReturnProgramTypes,
        inner \in ReturnProgramValues, outer \in ReturnProgramValues,
        after \in ReturnProgramValues}

\* u is declared nowhere: every use of it is a semantic error of its own
VariableU == VariableExpression(<<"u">>, StartLocation)
UseU == ExpressionStatement(VariableU, StartLocation)
Call(name, arguments) ==
    ExpressionStatement(FunctionCallExpression(name, arguments, StartLocation),
                        StartLocation)

\* statements that hold a use of u: in an expression statement, in both
\* arms of an if and in a loop, under conditions of the wrong type, in a
\* function body, in a returned value, and in the arguments of calls of
\* print, of sqrt with one argument too many, and of an undeclared function
TraversalStatements ==
    {UseU,
     IfStatement(IntLiteral, Block(<<UseU>>), Block(<<UseU>>), StartLocation),
     While(VariableU, <<UseU>>),
     Function(<<"f">>, "VOID", <<UseU>>),
     Function(<<"f">>, "INT", <<Return(VariableU)>>),
     Return(VariableU),
     Call(PrintName, <<VariableU>>),
     Call(SqrtName, <<VariableU, VariableU>>),
     Call(<<"g">>, <<VariableU>>)}

TraversalPrograms ==
    {<<first>> : first \in TraversalStatements}
    \cup {<<first, second>> : first \in TraversalStatements, second \in TraversalStatements}

AnalyzedPrograms ==
    TypeRulePrograms \cup AssignmentPrograms \cup InitializationPrograms
        \cup ReturnPrograms \cup TraversalPrograms

InitAnalyze ==
    /\ LexerIdle
    /\ RestIdle
    /\ tokens_ = <<>>
    /\ pcurrent_ = 0
    /\ hadError_ = FALSE
    /\ panicMode_ = FALSE
    /\ statements \in AnalyzedPrograms
    /\ parsePc = "done"
    /\ escaped = NoException
    /\ SemanticAnalyzerNew
    /\ frames = <<>>
    /\ visited = 0
    /\ semPc = "program"
    /\ lastVisit = NoVisit

analyzeRest == <<lexVars, tokens_, pcurrent_, hadError_, panicMode_, statements, parsePc, escaped, restVars>>

NextAnalyze ==
    \/ AnalyzeStatement /\ UNCHANGED analyzeRest
    \/ AnalyzeProgramReturn /\ UNCHANGED analyzeRest

SpecAnalyze == InitAnalyze /\ [][NextAnalyze]_vars

\* ---- the type rules, as the specification words them

\* the type the rules give a binary operation, "error" where they give none
PrescribedBinary(op, left, right) ==
    CASE op \in ArithmeticOperators ->
            IF left = "INT" /\ right = "INT" THEN "INT"
            ELSE IF {left, right} \subseteq {"INT", "FLOAT"} THEN "FLOAT"
            ELSE "error"
      [] op \in ComparisonOperators -> "BOOL"
      [] op \in LogicalOperators ->
            IF left = "BOOL" /\ right = "BOOL" THEN "BOOL" ELSE "error"

PrescribedUnary(op, operand) ==
    CASE op = "SUBTRACT" -> IF operand \in {"INT", "FLOAT"} THEN operand ELSE "error"
      [] op = "NOT" -> IF operand = "BOOL" THEN "BOOL" ELSE "error"

\* the program is a type rule program whose expression has been visited
TypeRuleVisited ==
    /\ semPc \in {"program", "done"}
    /\ statements \in TypeRulePrograms
    /\ visited = 3

PrescribedHere ==
    LET e == statements[3].expression
    IN  IF e.kind = "Binary"
        THEN PrescribedBinary(e.op, statements[1].type, statements[2].type)
        ELSE PrescribedUnary(e.op, statements[1].type)

\* C12: for every operator and every pair of operand types the analyzer
\* leaves the type the rules prescribe and reports nothing, or, where the
\* rules prescribe an error, reports exactly one error; the declarations of
\* the operands report nothing
C12_TypeRules ==
    /\ (semPc = "program" /\ statements \in TypeRulePrograms /\ visited < 3)
          => errors_ = <<>>
    /\ TypeRuleVisited =>
          IF PrescribedHere = "error"
          THEN Len(errors_) = 1
          ELSE errors_ = <<>> /\ currentExpressionType_ = PrescribedHere

\* C12 witness: a FLOAT has been added to an INT and the analyzer has
\* returned
C12_Witness ==
    /\ semPc = "done"
    /\ statements = BinaryProgram("FLOAT", "ADD", "INT")
    /\ currentExpressionType_ = "FLOAT"
    /\ errors_ = <<>>

\* ---- assignments and annotated initializations

\* an assignment or annotated initialization of a variable of type `to` with
\* a value of type `from` has been analyzed
Assigned(to, from) ==
    /\ semPc \in {"program", "done"}
    /\ visited = Len(statements)
    /\ statements \in {AssignmentProgram(to, from), InitializationProgram(to, from)}

DeclaredGlobals ==
    {name \in DOMAIN scopes_[1] : ~scopes_[1][name].isFunction}

\* C14: when analyze() returns success, the type computed for the
\* program's last expression is not UNKNOWN and no declared variable has a
\* symbol of type UNKNOWN
C14_NoUnknownAfterSuccess ==
    (semPc = "done" /\ statements # <<>> /\ errors_ = <<>>) =>
        /\ currentExpressionType_ # "UNKNOWN"
        /\ \A name \in DeclaredGlobals : scopes_[1][name].type # "UNKNOWN"

\* ---- return statements

\* the type of a returned value: a bare return is VOID
ReturnedType(value) == IF value = Null THEN "VOID" ELSE value.type

\* what a return statement of the function with the given return type is to
\* report
ReturnReport(value, returnType) ==
    IF ReturnedType(value) = returnType \/ {ReturnedType(value), returnType} = {"INT", "FLOAT"}
    THEN <<>>
    ELSE << <<"Return type mismatch">> >>

\* the errors of a return program after its function declaration: the inner
\* return against g's type, then the outer return against f's type
ReportsInFunction ==
    LET f == statements[1]
        g == f.body.statements[1]
    IN  ReturnReport(g.body.statements[1].value, g.returnType)
            \o ReturnReport(f.body.statements[2].value, f.returnType)

\* C15: each return statement is checked against the return type of the
\* innermost function declaration around it, also after a nested function
\* declaration; a bare return is VOID; when the declaration is left
\* inFunction_ and the return type are as before it, and a return statement
\* outside every function is reported as such
C15_ReturnsChecked ==
    (semPc \in {"program", "done"} /\ statements \in ReturnPrograms) =>
        /\ visited >= 1 =>
              /\ ~inFunction_
              /\ currentFunctionReturnType_ = "VOID"
        /\ visited = 1 => errors_ = ReportsInFunction
        /\ visited = 2 =>
              errors_ = ReportsInFunction \o << <<"Return statement outside function">> >>

\* C15 witness: `function f(): int { function g(): bool { return true; }
\* return; } return;` has been analyzed: the bare return of f is a mismatch
C15_Witness ==
    /\ semPc = "done"
    /\ statements = ReturnProgram("INT", "BOOL", BoolLiteral, Null, Null)
    /\ errors_ = << <<"Return type mismatch">>, <<"Return statement outside function">> >>

\* the number of uses of the variable in an expression, in a list of
\* expressions, in a statement and in a list of statements
RECURSIVE UsesIn(_, _), UsesInAll(_, _, _), UsesInStatement(_, _), UsesInStatements(_, _, _)
UsesIn(expr, name) ==
    CASE expr.kind = "Variable" -> IF expr.name = name THEN 1 ELSE 0
      [] expr.kind = "Binary" -> UsesIn(expr.left, name) + UsesIn(expr.right, name)
      [] expr.kind = "Unary" -> UsesIn(expr.operand, name)
      [] expr.kind = "Assignment" -> UsesIn(expr.value, name)
      [] expr.kind = "Call" -> UsesInAll(expr.arguments, name, 1)
      [] OTHER -> 0
UsesInAll(exprs, name, i) ==
    IF i > Len(exprs) THEN 0 ELSE UsesIn(exprs[i], name) + UsesInAll(exprs, name, i + 1)
UsesInStatement(stmt, name) ==
    CASE stmt.kind = "Block" -> UsesInStatements(stmt.statements, name, 1)
      [] stmt.kind = "VarDecl" -> UsesIn(stmt.initializer, name)
      [] stmt.kind = "FuncDecl" -> UsesInStatement(stmt.body, name)
      [] stmt.kind = "If" ->
           UsesIn(stmt.condition, name) + UsesInStatement(stmt.thenBranch, name)
               + UsesInStatement(stmt.elseBranch, name)
      [] stmt.kind = "While" ->
           UsesIn(stmt.condition, name) + UsesInStatement(stmt.body, name)
      [] stmt.kind = "Return" -> UsesIn(stmt.value, name)
      [] stmt.kind = "ExprStmt" -> UsesIn(stmt.expression, name)
      [] OTHER -> 0
UsesInStatements(stmts, name, i) ==
    IF i > Len(stmts) THEN 0
    ELSE UsesInStatement(stmts[i], name) + UsesInStatements(stmts, name, i + 1)

\* the reports of the error list that say the variable is undefined
UndefinedReports(errors, name) ==
    {k \in 1..Len(errors) :
        /\ Len(errors[k]) = 2
        /\ errors[k][1] = "Undefined variable: "
        /\ errors[k][2] = name}

\* C23: analyze() visits every statement and expression of the program
\* once, whatever it has reported before: each use of a variable that is
\* declared nowhere, an error of its own, is in the error list once
C23_TraversalCompletes ==
    (semPc = "done" /\ statements \in TraversalPrograms) =>
        Cardinality(UndefinedReports(errors_, <<"u">>))
            = UsesInStatements(statements, <<"u">>, 1)

\* ---------------------------------------------------------------------
\* LLVMCodeGenerator (CodeGen.cpp).  The LLVM module is a list of
\* functions and a list of basic blocks; a block holds its instructions in
\* order and names the function it belongs to.  The builder's insertion
\* point is the end of a block, or no block.  A visitor takes the
\* generator's fields as one record and gives them back as they are when it
\* returns.  `ub` is set where the code dereferences the null insertion
\* block; nothing is modelled past that point and the step that reaches it
\* picks the outcome.
\* ---------------------------------------------------------------------

NoBlock == 0
NoFunction == 0

\* an llvm::Value*: nullptr, a constant, a global, an argument, or the
\* result of the instruction with the given id
NullValue == [kind |-> "nullptr", type |-> "", ref |-> <<>>]
Constant(type, value) == [kind |-> "const", type |-> type, ref |-> value]
Global(type, value) == [kind |-> "global", type |-> type, ref |-> value]
Argument(type, func, i) == [kind |-> "arg", type |-> type, ref |-> <<func, i>>]
Result(type, id) == [kind |-> "inst", type |-> type, ref |-> <<id>>]
\* the other operands of an instruction: a block, a callee, the name given
\* to an alloca
Label(block) == [kind |-> "label", type |-> "label", ref |-> <<block>>]
Callee(name) == [kind |-> "function", type |-> "", ref |-> name]
Name(name) == [kind |-> "name", type |-> "", ref |-> name]

IsNull(value) == value.kind = "nullptr"
IsConstant(value) == value.kind = "const"

Instruction(id, op, type, operands) ==
    [id |-> id, op |-> op, type |-> type, operands |-> operands]

Terminators == {"ret", "br", "condbr"}

PrintfName == <<"p", "r", "i", "n", "t", "f">>

\* llvm::Function::Create gives a function a name of its own
UniqueName(functions, name) ==
    IF \E i \in 1..Len(functions) : functions[i].name = name
    THEN name \o <<".", to_string(Len(functions))>>
    ELSE name

\* module_->getFunction(name): the function, NoFunction when there is none
getFunction(functions, name) ==
    IF \E i \in 1..Len(functions) : functions[i].name = name
    THEN CHOOSE i \in 1..Len(functions) : functions[i].name = name
    ELSE NoFunction

getLLVMType(type) ==
    CASE type = "VOID" -> "void"
      [] type = "INT" -> "i32"
      [] type = "FLOAT" -> "double"
      [] type = "BOOL" -> "i1"
      [] type \in {"STRING", "ARRAY", "FUNCTION"} -> "i8*"
      [] OTHER -> "i32"

isIntegerTy(type) == type \in {"i32", "i1"}

\* createBuiltinFunctions: the declaration of printf
createBuiltinFunctions ==
    << [name |-> PrintfName, returnType |-> "i32", parameterTypes |-> <<"i8*">>,
        blocks |-> <<>>] >>

\* the generator after its constructor
LLVMCodeGeneratorNew ==
    [functions |-> createBuiltinFunctions,
     blocks |-> <<>>,
     insertBlock |-> NoBlock,
     created |-> 0,
     currentValue_ |-> NullValue,
     currentFunction_ |-> NoFunction,
     variables_ |-> [name \in {} |-> NullValue],
     functions_ |-> [name \in {} |-> NoFunction],
     breakTargets_ |-> <<>>,
     continueTargets_ |-> <<>>,
     hasErrors_ |-> FALSE,
     errors_ |-> <<>>,
     ub |-> FALSE]

\* LLVMCodeGenerator::reportError
genReportError(g, message) ==
    [g EXCEPT !.hasErrors_ = TRUE, !.errors_ = Append(g.errors_, message)]

\* the rest of a visitor, K, goes on from g unless g is past a null
\* dereference
Then(g, K(_)) == Only({IF x.ub THEN x ELSE K(x) : x \in {g}})

Undefined(g) == [g EXCEPT !.ub = TRUE]

\* the builder creates an instruction: it goes to the end of the insertion
\* block, or into no block when the builder has no insertion point; the
\* instruction's value is left in currentValue_ for the caller to pick up
Create(g, op, type, operands) ==
    LET id == g.created + 1
        inst == Instruction(id, op, type, operands)
    IN  [g EXCEPT !.created = id,
                  !.blocks = IF g.insertBlock = NoBlock THEN g.blocks
                             ELSE [g.blocks EXCEPT ![g.insertBlock].insts = Append(@, inst)]]

\* the value of the instruction Create has just made
Created(g, type) == Result(type, g.created)

\* llvm::BasicBlock::Create(context_, label, func): the block is appended to
\* the function; its index is Len(blocks) afterwards
CreateBlock(g, label, func) ==
    [g EXCEPT !.blocks = Append(@, [label |-> label, parent |-> func, insts |-> <<>>]),
              !.functions[func].blocks = Append(@, Len(g.blocks) + 1)]

\* BasicBlock::getTerminator: the last instruction when it is a terminator
getTerminator(g, block) ==
    LET insts == g.blocks[block].insts
    IN  insts # <<>> /\ insts[Len(insts)].op \in Terminators

SetInsertPoint(g, block) == [g EXCEPT !.insertBlock = block]

\* createAlloca: the alloca goes to the front of the entry block of the
\* function of the insertion block; the returned value is in currentValue_
createAlloca(g, type, name) ==
    IF g.insertBlock = NoBlock THEN Undefined(g)
    ELSE LET func == g.blocks[g.insertBlock].parent
             entry == g.functions[func].blocks[1]
             id == g.created + 1
             inst == Instruction(id, "alloca", type, <<Name(name)>>)
         IN  [g EXCEPT !.created = id,
                       !.blocks[entry].insts = <<inst>> \o @]

declareVariable(g, name, value) ==
    [g EXCEPT !.variables_ =
        [n \in DOMAIN g.variables_ \cup {name} |->
            IF n = name THEN value ELSE g.variables_[n]]]

getVariable(g, name) ==
    IF name \in DOMAIN g.variables_ THEN g.variables_[name] ELSE NullValue

setValue(g, value) == [g EXCEPT !.currentValue_ = value]

\* a builder operation on values: constants fold into a constant and no
\* instruction is made
CreateOperation(g, op, type, operands) ==
    IF \A i \in 1..Len(operands) : IsConstant(operands[i])
    THEN setValue(g, Constant(type, <<op>>))
    ELSE Only({setValue(h, Created(h, type)) : h \in {Create(g, op, type, operands)}})

\* generateBinaryOperation: the result is left in currentValue_
generateBinaryOperation(g, left, op, right) ==
    LET integers == isIntegerTy(left.type) /\ isIntegerTy(right.type)
        operands == <<left, right>>
    IN  CASE op = "ADD" ->
               CreateOperation(g, IF integers THEN "add" ELSE "fadd", left.type, operands)
          [] op = "SUBTRACT" ->
               CreateOperation(g, IF integers THEN "sub" ELSE "fsub", left.type, operands)
          [] op = "MULTIPLY" ->
               CreateOperation(g, IF integers THEN "mul" ELSE "fmul", left.type, operands)
          [] op = "DIVIDE" ->
               CreateOperation(g, IF integers THEN "sdiv" ELSE "fdiv", left.type, operands)
          [] op = "EQUAL" ->
               CreateOperation(g, IF integers THEN "icmp eq" ELSE "fcmp oeq", "i1", operands)
          [] op = "NOT_EQUAL" ->
               CreateOperation(g, IF integers THEN "icmp ne" ELSE "fcmp one", "i1", operands)
          [] op = "LESS" ->
               CreateOperation(g, IF integers THEN "icmp slt" ELSE "fcmp olt", "i1", operands)
          [] op = "GREATER" ->
               CreateOperation(g, IF integers THEN "icmp sgt" ELSE "fcmp ogt", "i1", operands)
          [] OTHER ->
               setValue(genReportError(g, <<"Unsupported binary operation">>), NullValue)

generateUnaryOperation(g, op, operand) ==
    CASE op = "SUBTRACT" ->
           CreateOperation(g, IF isIntegerTy(operand.type) THEN "neg" ELSE "fneg",
                           operand.type, <<operand>>)
      [] op = "NOT" -> CreateOperation(g, "not", operand.type, <<operand>>)
      [] OTHER -> setValue(genReportError(g, <<"Unsupported unary operation">>), NullValue)

RECURSIVE generateExpression(_, _), GenerateArguments(_, _, _, _, _)

lowerLiteralExpression(expr, g) ==
    CASE expr.type \in {"INT", "FLOAT", "BOOL"} ->
           setValue(g, Constant(getLLVMType(expr.type), expr.value))
      [] expr.type = "STRING" ->
           \* CreateGlobalStringPtr finds the module through the insertion block
           IF g.insertBlock = NoBlock THEN Undefined(g)
           ELSE setValue(g, Global("i8*", expr.value))
      [] OTHER -> genReportError(g, <<"Unsupported literal type">>)

lowerVariableExpression(expr, g) ==
    Only({IF IsNull(var)
          THEN genReportError(g, <<"Undefined variable: ", expr.name>>)
          ELSE Only({setValue(h, Created(h, "i32")) :
                       h \in {Create(g, "load", getLLVMType("UNKNOWN"), <<var>>)}}) :
          var \in {getVariable(g, expr.name)}})

lowerBinaryExpression(expr, g) ==
    Then(generateExpression(expr.left, g), LAMBDA l :
      Then(generateExpression(expr.right, l), LAMBDA r :
        IF IsNull(l.currentValue_) \/ IsNull(r.currentValue_)
        THEN genReportError(r, <<"Failed to generate operands for binary expression">>)
        ELSE generateBinaryOperation(r, l.currentValue_, expr.op, r.currentValue_)))

lowerUnaryExpression(expr, g) ==
    Then(generateExpression(expr.operand, g), LAMBDA o :
        IF IsNull(o.currentValue_)
        THEN genReportError(o, <<"Failed to generate operand for unary expression">>)
        ELSE generateUnaryOperation(o, expr.op, o.currentValue_))

lowerAssignmentExpression(expr, g) ==
    Then(generateExpression(expr.value, g), LAMBDA v :
        IF IsNull(v.currentValue_)
        THEN genReportError(v, <<"Failed to generate value for assignment">>)
        ELSE Only({IF IsNull(var)
                   THEN genReportError(v, <<"Undefined variable: ", expr.name>>)
                   ELSE setValue(Create(v, "store", "void", <<v.currentValue_, var>>),
                                 v.currentValue_) :
                   var \in {getVariable(v, expr.name)}}))

\* the argument loop of visitFunctionCallExpression: `failed` is set in the
\* result when an argument gave no value
GenerateArguments(arguments, g, i, args, func) ==
    IF i > Len(arguments)
    THEN Only({setValue(h, Created(h, g.functions[func].returnType)) :
                 h \in {Create(g, "call", g.functions[func].returnType,
                                <<Callee(g.functions[func].name)>> \o args)}})
    ELSE Then(generateExpression(arguments[i], g), LAMBDA a :
            IF IsNull(a.currentValue_)
            THEN genReportError(a, <<"Failed to generate function argument">>)
            ELSE GenerateArguments(arguments, a, i + 1, Append(args, a.currentValue_), func))

lowerFunctionCallExpression(expr, g) ==
    Only({IF func = NoFunction
          THEN genReportError(g, <<"Undefined function: ", expr.name>>)
          ELSE GenerateArguments(expr.arguments, g, 1, <<>>, func) :
          func \in {getFunction(g.functions, expr.name)}})

\* expr->accept(*this); the caller returns currentValue_
generateExpression(expr, g) ==
    CASE expr.kind = "Literal" -> lowerLiteralExpression(expr, g)
      [] expr.kind = "Variable" -> lowerVariableExpression(expr, g)
      [] expr.kind = "Binary" -> lowerBinaryExpression(expr, g)
      [] expr.kind = "Unary" -> lowerUnaryExpression(expr, g)
      [] expr.kind = "Assignment" -> lowerAssignmentExpression(expr, g)
      [] expr.kind = "Call" -> lowerFunctionCallExpression(expr, g)

RECURSIVE lower(_, _), generateBlock(_, _, _)

\* for (const auto& statement : statements) statement->accept(*this)
generateBlock(stmts, g, i) ==
    IF i > Len(stmts) THEN g
    ELSE Then(lower(stmts[i], g), LAMBDA h : generateBlock(stmts, h, i + 1))

lowerBlockStatement(stmt, g) == generateBlock(stmt.statements, g, 1)

lowerVariableDeclaration(stmt, g) ==
    Then(createAlloca(g, getLLVMType(stmt.type), stmt.name), LAMBDA a :
      Only({Only({IF stmt.initializer = Null THEN d
                  ELSE Then(generateExpression(stmt.initializer, d), LAMBDA i :
                         IF IsNull(i.currentValue_) THEN i
                         ELSE setValue(Create(i, "store", "void", <<i.currentValue_, var>>),
                                       i.currentValue_)) :
                  d \in {declareVariable(a, stmt.name, var)}}) :
            var \in {Created(a, "ptr")}}))

\* the parameter loop of visitFunctionDeclaration
RECURSIVE SetUpParameters(_, _, _, _)
SetUpParameters(parameters, g, func, i) ==
    IF i > Len(parameters) THEN g
    ELSE Then(createAlloca(g, getLLVMType(parameters[i].second), parameters[i].first),
              LAMBDA a :
                Only({SetUpParameters(
                          parameters,
                          declareVariable(
                              Create(a, "store", "void",
                                     <<Argument(getLLVMType(parameters[i].second), func, i),
                                       paramVar>>),
                              parameters[i].first, paramVar),
                          func, i + 1) :
                      paramVar \in {Created(a, "ptr")}}))

lowerFunctionDeclaration(stmt, g) ==
    LET func == Len(g.functions) + 1
        created ==
            [g EXCEPT !.functions =
                        Append(@, [name |-> UniqueName(g.functions, stmt.name),
                                   returnType |-> getLLVMType(stmt.returnType),
                                   parameterTypes |->
                                       [i \in 1..Len(stmt.parameters) |->
                                           getLLVMType(stmt.parameters[i].second)],
                                   blocks |-> <<>>]),
                      !.functions_ =
                        [n \in DOMAIN g.functions_ \cup {stmt.name} |->
                            IF n = stmt.name THEN func ELSE g.functions_[n]]]
        entry == Len(g.blocks) + 1
    IN  Then(SetUpParameters(stmt.parameters,
                             SetInsertPoint(CreateBlock(created, "entry", func), entry),
                             func, 1), LAMBDA p :
          Then(lower(stmt.body, [p EXCEPT !.currentFunction_ = func]), LAMBDA b :
            Only({IF stmt.returnType = "VOID" /\ ~getTerminator(c, c.insertBlock)
                  THEN Create(c, "ret", "void", <<>>)
                  ELSE c :
                  c \in {[b EXCEPT !.currentFunction_ = NoFunction]}})))

lowerIfStatement(stmt, g) ==
    Then(generateExpression(stmt.condition, g), LAMBDA c :
      IF IsNull(c.currentValue_)
      THEN genReportError(c, <<"Failed to generate if condition">>)
      ELSE IF c.insertBlock = NoBlock THEN Undefined(c)
      ELSE
        LET func == c.blocks[c.insertBlock].parent
            thenBB == Len(c.blocks) + 1
            elseBB == Len(c.blocks) + 2
            mergeBB == Len(c.blocks) + 3
            branch(h) == IF ~getTerminator(h, h.insertBlock)
                         THEN Create(h, "br", "void", <<Label(mergeBB)>>)
                         ELSE h
        IN  Then(lower(stmt.thenBranch,
                       SetInsertPoint(
                           Create(CreateBlock(CreateBlock(CreateBlock(c, "then", func),
                                                          "else", func),
                                              "ifcont", func),
                                  "condbr", "void",
                                  <<c.currentValue_, Label(thenBB), Label(elseBB)>>),
                           thenBB)), LAMBDA t :
              Then(Only({IF stmt.elseBranch = Null THEN e ELSE lower(stmt.elseBranch, e) :
                           e \in {SetInsertPoint(branch(t), elseBB)}}), LAMBDA e :
                SetInsertPoint(branch(e), mergeBB))))

lowerWhileStatement(stmt, g) ==
    IF g.insertBlock = NoBlock THEN Undefined(g)
    ELSE
      LET func == g.blocks[g.insertBlock].parent
          loopBB == Len(g.blocks) + 1
          bodyBB == Len(g.blocks) + 2
          afterBB == Len(g.blocks) + 3
          entered ==
              [CreateBlock(CreateBlock(CreateBlock(g, "loop", func), "while_body", func),
                           "while_cont", func)
                 EXCEPT !.breakTargets_ = Append(@, afterBB),
                        !.continueTargets_ = Append(@, loopBB)]
      IN  Then(generateExpression(stmt.condition,
                                  SetInsertPoint(Create(entered, "br", "void", <<Label(loopBB)>>),
                                                 loopBB)), LAMBDA c :
            IF IsNull(c.currentValue_)
            THEN genReportError(c, <<"Failed to generate while condition">>)
            ELSE Then(lower(stmt.body,
                            SetInsertPoint(
                                Create(c, "condbr", "void",
                                       <<c.currentValue_, Label(bodyBB), Label(afterBB)>>),
                                bodyBB)), LAMBDA b :
                   Only({[SetInsertPoint(h, afterBB)
                            EXCEPT !.breakTargets_ = SubSeq(@, 1, Len(@) - 1),
                                   !.continueTargets_ = SubSeq(@, 1, Len(@) - 1)] :
                         h \in {IF ~getTerminator(b, b.insertBlock)
                                THEN Create(b, "br", "void", <<Label(loopBB)>>)
                                ELSE b}})))

lowerReturnStatement(stmt, g) ==
    IF stmt.value # Null
    THEN Then(generateExpression(stmt.value, g), LAMBDA v :
           IF IsNull(v.currentValue_) THEN v
           ELSE Create(v, "ret", v.currentValue_.type, <<v.currentValue_>>))
    ELSE Create(g, "ret", "void", <<>>)

lowerExpressionStatement(stmt, g) == generateExpression(stmt.expression, g)

\* statement->accept(*this)
lower(stmt, g) ==
    CASE stmt.kind = "Block" -> lowerBlockStatement(stmt, g)
      [] stmt.kind = "VarDecl" -> lowerVariableDeclaration(stmt, g)
      [] stmt.kind = "FuncDecl" -> lowerFunctionDeclaration(stmt, g)
      [] stmt.kind = "If" -> lowerIfStatement(stmt, g)
      [] stmt.kind = "While" -> lowerWhileStatement(stmt, g)
      [] stmt.kind = "Return" -> lowerReturnStatement(stmt, g)
      [] stmt.kind = "ExprStmt" -> lowerExpressionStatement(stmt, g)

\* the generator's fields as one value
generator ==
    [functions |-> module_.functions,
     blocks |-> module_.blocks,
     insertBlock |-> builder_.insertBlock,
     created |-> builder_.created,
     currentValue_ |-> currentValue_,
     currentFunction_ |-> currentFunction_,
     variables_ |-> variables_,
     functions_ |-> functions_,
     breakTargets_ |-> breakTargets_,
     continueTargets_ |-> continueTargets_,
     hasErrors_ |-> hasErrors_,
     errors_ |-> genErrors_,
     ub |-> FALSE]

\* the fields other than hasErrors_ become those of g
BecomesGenerator(g) ==
    /\ module_' = [functions |-> g.functions, blocks |-> g.blocks]
    /\ builder_' = [insertBlock |-> g.insertBlock, created |-> g.created]
    /\ currentValue_' = g.currentValue_
    /\ currentFunction_' = g.currentFunction_
    /\ variables_' = g.variables_
    /\ functions_' = g.functions_
    /\ breakTargets_' = g.breakTargets_
    /\ continueTargets_' = g.continueTargets_
    /\ genErrors_' = g.errors_

\* main.cpp:156-158: the generator is constructed and generate() entered,
\* after an analysis without errors
StartGenerate ==
    /\ semPc = "done"
    /\ errors_ = <<>>
    /\ genPc = "idle"
    /\ BecomesGenerator(LLVMCodeGeneratorNew)
    /\ hasErrors_' = FALSE
    /\ genPc' = "generating"
    /\ generated' = 0

\* what a dereference of the null insertion block can come to: the process
\* is killed, or generate() returns, with either result
UndefinedOutcomes == {"crashed", "returned"}

\* visitProgram: one iteration of its loop
GenerateStatement ==
    /\ genPc = "generating"
    /\ generated < Len(statements)
    /\ \E g \in {lower(statements[generated + 1], generator)} :
          /\ BecomesGenerator(g)
          /\ IF g.ub
             THEN /\ genPc' \in UndefinedOutcomes
                  /\ hasErrors_' \in BOOLEAN
             ELSE /\ genPc' = genPc
                  /\ hasErrors_' = g.hasErrors_
    /\ generated' = generated + 1

\* visitProgram after its last statement, and the return of generate()
GenerateReturn ==
    /\ genPc = "generating"
    /\ generated = Len(statements)
    /\ genPc' = "done"
    /\ UNCHANGED <<module_, builder_, currentValue_, currentFunction_, variables_,
                   functions_, breakTargets_, continueTargets_, hasErrors_, genErrors_,
                   generated>>

\* ---- the programs given to analyze() and then to generate()

MaxBody == 2

AssignA == ExpressionStatement(AssignmentExpression(<<"a">>, IntLiteral, StartLocation),
                               StartLocation)
UseA == ExpressionStatement(VariableA, StartLocation)
DeclareA == VariableDeclaration(<<"a">>, "INT", IntLiteral, StartLocation)
ParameterA == <<Parameter(<<"a">>, "INT")>>

\* the statements of a function body: a declaration, an assignment, a use,
\* returns, an if whose arms both return, an if without else, a loop, a
\* block that shadows, and a nested function with a parameter of the same
\* name
BodyStatements ==
    {DeclareA, AssignA, UseA, Return(Null), Return(IntLiteral),
     IfStatement(BoolLiteral, Block(<<Return(IntLiteral)>>), Block(<<Return(IntLiteral)>>),
                 StartLocation),
     IfStatement(BoolLiteral, Block(<<UseA>>), Null, StartLocation),
     WhileStatement(BoolLiteral, Block(<<AssignA>>), StartLocation),
     Block(<<DeclareA>>),
     FunctionDeclaration(<<"g">>, "VOID", ParameterA, Block(<<>>), StartLocation)}

Bodies == UNION {[1..n -> BodyStatements] : n \in 0..MaxBody}

\* var x: int = 1; at the top level
DeclareX == VariableDeclaration(<<"x">>, "INT", IntLiteral, StartLocation)

\* what stands before and after the function f of a compiled program
Heads == {<<>>, <<DeclareX>>}
Tails == {<<>>, <<DeclareX>>, <<Function(<<"h">>, "VOID", <<>>)>>}

FunctionPrograms ==
    {head \o <<FunctionDeclaration(<<"f">>, returnType, parameters, Block(body),
                                   StartLocation)>> \o tail :
        head \in Heads, tail \in Tails, returnType \in {"VOID", "INT"},
        parameters \in {<<>>, ParameterA}, body \in Bodies}

\* a < 1 and a <= 1
LessThanOne == BinaryExpression(VariableA, "LESS", IntLiteral, StartLocation)
AtMostOne == BinaryExpression(VariableA, "LESS_EQUAL", IntLiteral, StartLocation)

WhileConditions == {BoolLiteral, LessThanOne, AtMostOne}

WhileBodies ==
    {<<>>, <<AssignA>>, <<Return(Null)>>, <<While(LessThanOne, <<AssignA>>)>>,
     <<IfStatement(BoolLiteral, Block(<<UseA>>), Null, StartLocation)>>}

\* function f(a: int) { <before> while (<condition>) { <body> } <after> },
\* and a loop at the top level, alone and behind a function
WhilePrograms ==
    {<<FunctionDeclaration(<<"f">>, "VOID", ParameterA,
                           Block(before \o <<While(condition, body)>> \o after),
                           StartLocation)>> :
        before \in {<<>>, <<AssignA>>, <<Return(Null)>>},
        condition \in WhileConditions, body \in WhileBodies,
        after \in {<<>>, <<AssignA>>}}
    \cup {<<While(BoolLiteral, <<>>)>>,
          <<Function(<<"f">>, "VOID", <<>>), While(BoolLiteral, <<>>)>>}

VariableC == VariableExpression(<<"c">>, StartLocation)
FloatLiteral == LiteralExpression(<<"1", ".", "5">>, "FLOAT", StartLocation)

\* every operator the analyzer has a rule for, on operands of a type the
\* rule takes, and a call of each built-in with arguments of its signature
OperatorExpressions ==
    {BinaryExpression(VariableA, op, VariableA, StartLocation) :
        op \in ArithmeticOperators \cup ComparisonOperators}
    \cup {BinaryExpression(VariableC, op, VariableC, StartLocation) : op \in LogicalOperators}
    \cup {UnaryExpression("SUBTRACT", VariableA, StartLocation),
          UnaryExpression("NOT", VariableC, StartLocation)}
BuiltinCalls ==
    {FunctionCallExpression(PrintName, <<StringLiteral>>, StartLocation),
     FunctionCallExpression(InputName, <<>>, StartLocation),
     FunctionCallExpression(SqrtName, <<FloatLiteral>>, StartLocation)}

\* function f(a: int, c: bool) { <expression>; }
OperatorProgram(expression) ==
    <<FunctionDeclaration(<<"f">>, "VOID",
                          <<Parameter(<<"a">>, "INT"), Parameter(<<"c">>, "BOOL")>>,
                          Block(<<ExpressionStatement(expression, StartLocation)>>),
                          StartLocation)>>

OperatorPrograms ==
    {OperatorProgram(expression) : expression \in OperatorExpressions \cup BuiltinCalls}

\* input(), which the analyzer resolves and the module does not declare
CallInput == FunctionCallExpression(InputName, <<>>, StartLocation)

\* the places where the value of an expression is used: returned, stored
\* by a declaration, stored by an assignment
ValueUses(value) ==
    {Return(value),
     VariableDeclaration(<<"x">>, "STRING", value, StartLocation),
     ExpressionStatement(AssignmentExpression(<<"b">>, value, StartLocation), StartLocation)}

\* function f(b: string): string { 1; <use of value> }: the value of the
\* literal 1 is used by no statement
LeftOverProgram(use) ==
    <<FunctionDeclaration(<<"f">>, "STRING", <<Parameter(<<"b">>, "STRING")>>,
                          Block(<<ExpressionStatement(IntLiteral, StartLocation), use>>),
                          StartLocation)>>

LeftOverPrograms ==
    {LeftOverProgram(use) : use \in ValueUses(CallInput) \cup ValueUses(StringLiteral)}

CompiledPrograms ==
    FunctionPrograms \cup WhilePrograms \cup OperatorPrograms \cup LeftOverPrograms

InitCompile ==
    /\ LexerIdle
    /\ RestIdle
    /\ tokens_ = <<>>
    /\ pcurrent_ = 0
    /\ hadError_ = FALSE
    /\ panicMode_ = FALSE
    /\ statements \in CompiledPrograms
    /\ parsePc = "done"
    /\ escaped = NoException
    /\ SemanticAnalyzerNew
    /\ frames = <<>>
    /\ visited = 0
    /\ semPc = "program"
    /\ lastVisit = NoVisit

compileFront == <<lexVars, tokens_, pcurrent_, hadError_, panicMode_, statements, parsePc, escaped>>

NextCompile ==
    \/ AnalyzeStatement /\ UNCHANGED <<compileFront, restVars>>
    \/ AnalyzeProgramReturn /\ UNCHANGED <<compileFront, restVars>>
    \/ StartGenerate /\ UNCHANGED <<compileFront, semVars, tableVars, driverVars>>
    \/ GenerateStatement /\ UNCHANGED <<compileFront, semVars, tableVars, driverVars>>
    \/ GenerateReturn /\ UNCHANGED <<compileFront, semVars, tableVars, driverVars>>

SpecCompile == InitCompile /\ [][NextCompile]_vars

\* ---- the lowered module

BlockIds == 1..Len(module_.blocks)

Insts(block) == module_.blocks[block].insts

\* the block ends with a terminator and holds no other
WellTerminated(block) ==
    /\ Insts(block) # <<>>
    /\ \A k \in 1..Len(Insts(block)) :
          Insts(block)[k].op \in Terminators <=> k = Len(Insts(block))

\* C16: when generate() has returned for a program the analyzer accepted,
\* every basic block of the module ends with exactly one terminator and
\* has no instruction after a terminator
C16_BlocksTerminated ==
    genPc = "done" => \A block \in BlockIds : WellTerminated(block)

\* the places <<block, k>> of the allocas made for a variable
AllocasOf(name, type) ==
    {place \in UNION {{<<block, k>> : k \in 1..Len(Insts(block))} : block \in BlockIds} :
        LET inst == Insts(place[1])[place[2]]
        IN  inst.op = "alloca" /\ inst.type = type /\ inst.operands = <<Name(name)>>}

\* a store of some value to the slot the instruction at the place made
StoredTo(place) ==
    \E block \in BlockIds : \E k \in 1..Len(Insts(block)) :
        LET inst == Insts(block)[k]
        IN  /\ inst.op = "store"
            /\ inst.operands[2].ref = <<Insts(place[1])[place[2]].id>>

\* the entry blocks of the module's functions
EntryBlocks ==
    {module_.functions[f].blocks[1] :
        f \in {f \in 1..Len(module_.functions) : module_.functions[f].blocks # <<>>}}

\* the program declares `var x: int = 1;` at its top level
DeclaresX == \E i \in 1..Len(statements) : statements[i] = DeclareX

\* C17: a program with the top level declaration `var x: int = 1;` is
\* analyzed with x registered as an INT variable, lowering it neither
\* dereferences a null pointer nor reports an error, and when generate() has
\* returned the module holds an alloca of i32 for x in the entry block of a
\* function and a store to that slot
C17_DeclarationsLower ==
    (DeclaresX /\ semPc = "done" /\ errors_ = <<>>) =>
        /\ <<"x">> \in DOMAIN scopes_[1]
        /\ scopes_[1][<<"x">>].type = "INT"
        /\ genPc \notin UndefinedOutcomes
        /\ genPc = "done" =>
              /\ ~hasErrors_
              /\ \E place \in AllocasOf(<<"x">>, "i32") :
                    place[1] \in EntryBlocks /\ StoredTo(place)

\* ---- variable references

\* the instructions of the module
AllInsts == UNION {{Insts(block)[k] : k \in 1..Len(Insts(block))} : block \in BlockIds}

Loads == {inst \in AllInsts : inst.op = "load"}

\* the load made last
LastLoad == CHOOSE inst \in Loads : \A other \in Loads : other.id <= inst.id

\* function f(a: int) { S; a; } with S anything but a declaration of a in
\* the body's own scope: the analyzer resolves the reference to the
\* parameter, whose slot is the first alloca the generator makes
RefersToParameter ==
    /\ statements[1].kind = "FuncDecl"
    /\ statements[1].parameters = ParameterA
    /\ Len(statements[1].body.statements) = 2
    /\ statements[1].body.statements[1] # DeclareA
    /\ statements[1].body.statements[2] = UseA

ParameterSlot == <<1>>

\* C20: a reference lowered after a block that shadowed the variable, or
\* after a nested function with a parameter of the same name, loads from
\* the slot of the declaration the analyzer resolves it to
C20_ReferencesResolve ==
    (genPc = "done" /\ RefersToParameter) =>
        /\ Loads # {}
        /\ LastLoad.operands[1].ref = ParameterSlot

\* the number of while statements of a statement, and of a list of them
RECURSIVE WhilesIn(_), WhilesOf(_, _)
WhilesIn(stmt) ==
    CASE stmt.kind = "Block" -> WhilesOf(stmt.statements, 1)
      [] stmt.kind = "FuncDecl" -> WhilesIn(stmt.body)
      [] stmt.kind = "If" ->
           WhilesIn(stmt.thenBranch)
               + (IF stmt.elseBranch = Null THEN 0 ELSE WhilesIn(stmt.elseBranch))
      [] stmt.kind = "While" -> 1 + WhilesIn(stmt.body)
      [] OTHER -> 0
WhilesOf(stmts, i) ==
    IF i > Len(stmts) THEN 0 ELSE WhilesIn(stmts[i]) + WhilesOf(stmts, i + 1)

\* the blocks with the label the lowering gives to a loop header
Headers == {block \in BlockIds : module_.blocks[block].label = "loop"}

LastInst(block) == Insts(block)[Len(Insts(block))]

IsBranchTo(inst, block) == inst.op = "br" /\ inst.operands = <<Label(block)>>

\* header, body and after were made together, for one function; a block
\* made before the header branches to it; the header ends with a
\* conditional branch to body or after; and a block of the body ends with
\* the branch back to the header or with another terminator
LoweredLoop(header) ==
    /\ header + 2 <= Len(module_.blocks)
    /\ module_.blocks[header + 1].label = "while_body"
    /\ module_.blocks[header + 2].label = "while_cont"
    /\ module_.blocks[header + 1].parent = module_.blocks[header].parent
    /\ module_.blocks[header + 2].parent = module_.blocks[header].parent
    /\ \E block \in 1..(header - 1) :
          \E k \in 1..Len(Insts(block)) : IsBranchTo(Insts(block)[k], header)
    /\ Insts(header) # <<>>
    /\ LastInst(header).op = "condbr"
    /\ SubSeq(LastInst(header).operands, 2, 3) = <<Label(header + 1), Label(header + 2)>>
    /\ \A k \in 1..(Len(Insts(header)) - 1) : Insts(header)[k].op \notin Terminators
    /\ \E block \in (header + 1)..Len(module_.blocks) :
          /\ block # header + 2
          /\ Insts(block) # <<>>
          /\ LastInst(block).op \in Terminators
          /\ LastInst(block).op = "br" => IsBranchTo(LastInst(block), header)

\* the statement is a loop, or a function whose body ends with a loop
EndsWithWhile(stmt) ==
    \/ stmt.kind = "While"
    \/ /\ stmt.kind = "FuncDecl"
       /\ stmt.body.statements # <<>>
       /\ stmt.body.statements[Len(stmt.body.statements)].kind = "While"

\* C22: lowering a while statement makes three blocks, header, body and
\* after, branches from the current block to the header, ends the header
\* with a conditional branch to body or after, ends the body with the
\* branch back to the header unless it is terminated otherwise, and leaves
\* the insertion point at the after block
C22_WhileLowered ==
    /\ (generated >= 1 /\ statements[generated].kind = "While")
          => genPc \notin UndefinedOutcomes
    /\ genPc = "done" =>
          /\ Cardinality(Headers) = WhilesOf(statements, 1)
          /\ Cardinality({block \in BlockIds :
                             module_.blocks[block].label \in {"while_body", "while_cont"}})
                = 2 * Cardinality(Headers)
          /\ \A header \in Headers : LoweredLoop(header)
    /\ (genPc = "generating" /\ generated >= 1 /\ EndsWithWhile(statements[generated]))
          => /\ builder_.insertBlock # NoBlock
             /\ module_.blocks[builder_.insertBlock].label = "while_cont"

\* the instructions that compute on integer operands
IntegerOpcodes ==
    {"add", "sub", "mul", "sdiv", "srem", "icmp eq", "icmp ne", "icmp slt", "icmp sle",
     "icmp sgt", "icmp sge", "and", "or", "neg", "not"}

\* C25: generate() reports no error for a program the analyzer accepted:
\* every operator the analyzer accepts is lowered to an instruction, the
\* integer one for integer operands, and every name the analyzer resolved,
\* the built-ins among them, is found
C25_AcceptedProgramsLower ==
    genPc = "done" =>
        /\ ~hasErrors_
        /\ genErrors_ = <<>>
        /\ (\E expression \in OperatorExpressions : statements = OperatorProgram(expression))
              => \E block \in BlockIds : \E k \in 1..Len(Insts(block)) :
                    Insts(block)[k].op \in IntegerOpcodes

\* C28: the stacks of break and continue targets are balanced: when a
\* statement of the program has been lowered, whatever path the loops in it
\* took, both stacks are as deep as before it, and both are empty when
\* generate() returns
C28_TargetStacksBalanced ==
    genPc \in {"generating", "done"} =>
        /\ breakTargets_ = <<>>
        /\ continueTargets_ = <<>>

\* the instructions with the value among their operands
UsersOf(value) ==
    {inst \in UNION {{Insts(block)[k] : k \in 1..Len(Insts(block))} : block \in BlockIds} :
        \E k \in 1..Len(inst.operands) : inst.operands[k] = value}

\* C29: generateExpression(e) returns a value made by lowering e, or null:
\* in a function whose body is `1;` and then a statement that uses the value
\* of another expression, the value of the literal 1 is used by no
\* instruction, also when lowering the other expression reports an error
C29_NoLeftOverValue ==
    (genPc \in {"generating", "done"} /\ statements \in LeftOverPrograms) =>
        UsersOf(Constant(getLLVMType("INT"), IntLiteral.value)) = {}

\* the function declarations of a statement and of a list of statements,
\* nested ones included
RECURSIVE DeclarationsIn(_), DeclarationsOf(_, _)
DeclarationsIn(stmt) ==
    CASE stmt.kind = "FuncDecl" -> {stmt} \cup DeclarationsIn(stmt.body)
      [] stmt.kind = "Block" -> DeclarationsOf(stmt.statements, 1)
      [] stmt.kind = "If" ->
           DeclarationsIn(stmt.thenBranch)
               \cup (IF stmt.elseBranch = Null THEN {} ELSE DeclarationsIn(stmt.elseBranch))
      [] stmt.kind = "While" -> DeclarationsIn(stmt.body)
      [] OTHER -> {}
DeclarationsOf(stmts, i) ==
    IF i > Len(stmts) THEN {}
    ELSE DeclarationsIn(stmts[i]) \cup DeclarationsOf(stmts, i + 1)

\* the number of instructions in the blocks of a function of the module
RECURSIVE InstsOfBlocks(_, _)
InstsOfBlocks(blocks, i) ==
    IF i > Len(blocks) THEN 0
    ELSE Len(Insts(blocks[i])) + InstsOfBlocks(blocks, i + 1)

\* C30: an instruction goes into a block of the function whose declaration
\* encloses the statement it is emitted for: a function declared with an
\* empty body holds the slot and the store of each parameter, and `ret void`
\* when it returns nothing, and no instruction of a statement that follows
\* its declaration in an enclosing body or at the top level; and no statement
\* is lowered without an insertion block
C30_EmittedIntoEnclosingFunction ==
    /\ genPc \notin UndefinedOutcomes
    /\ genPc \in {"generating", "done"} =>
          \A decl \in DeclarationsOf(statements, 1) :
              \A func \in 1..Len(module_.functions) :
                  (decl.body.statements = <<>> /\ module_.functions[func].name = decl.name)
                      => InstsOfBlocks(module_.functions[func].blocks, 1)
                            = 2 * Len(decl.parameters)
                                + (IF decl.returnType = "VOID" THEN 1 ELSE 0)

\* ---------------------------------------------------------------------
\* The driver: main() and compileFile (main.cpp:95-212) on a source text
\* read from the input file, with and without -E
\* ---------------------------------------------------------------------

\* var x = 1;
SrcVarInferred == <<"v", "a", "r", " ", "x", " ", "=", " ", "1", ";">>

\* function f() { }
SrcEmptyFunction ==
    <<"f", "u", "n", "c", "t", "i", "o", "n", " ", "f", "(", ")", " ", "{", " ", "}">>

DriverSources == Sources \cup {SrcVarInferred, SrcEmptyFunction}

\* the process has not exited
Running == exitCode = "none"

InitDriver ==
    /\ source_ \in DriverSources
    /\ current_ = LexerNew.current
    /\ start_ = LexerNew.start
    /\ location_ = LexerNew.location
    /\ tokens = <<>>
    /\ lexPc = "scan"
    /\ run = 1
    /\ how = "first"
    /\ firstTokens = <<>>
    /\ ParserIdle
    /\ SemIdle
    /\ TableIdle
    /\ GenIdle
    /\ options \in [preprocessOnly : BOOLEAN]
    /\ stages = <<"lexer">>
    /\ emitted = "nothing"
    /\ exitCode = "none"

\* main.cpp:121-126 and 209-211: an ERROR token ends compileFile with
\* false, and main returns 1
DriverLexicalError ==
    /\ Running
    /\ LexicalErrorHalt
    /\ exitCode' = "1"
    /\ UNCHANGED <<options, stages, emitted>>

\* main.cpp:128-131
DriverStartParse ==
    /\ Running
    /\ StartParse
    /\ stages' = Append(stages, "parser")
    /\ UNCHANGED <<options, emitted, exitCode>>

\* main.cpp:181-183: the CompilerError that escaped parse() is caught
DriverCompilerError ==
    /\ Running
    /\ parsePc = "escaped"
    /\ exitCode' = "1"
    /\ UNCHANGED <<options, stages, emitted>>

\* main.cpp:134-142: under -E the tokens are printed after parse() has
\* returned
DriverPreprocessOnly ==
    /\ Running
    /\ parsePc = "done"
    /\ options.preprocessOnly
    /\ emitted' = "tokens"
    /\ exitCode' = "0"
    /\ UNCHANGED <<options, stages>>

\* main.cpp:146-148: SemanticAnalyzer analyzer; analyzer.analyze(ast)
DriverStartAnalyze ==
    /\ Running
    /\ parsePc = "done"
    /\ ~options.preprocessOnly
    /\ semPc = "idle"
    /\ scopes_' = registerBuiltins(SymbolTableNew)
    /\ errors_' = <<>>
    /\ inFunction_' = FALSE
    /\ currentFunctionReturnType_' = "VOID"
    /\ inLoop_' = FALSE
    /\ currentExpressionType_' = "UNKNOWN"
    /\ semPc' = "program"
    /\ visited' = 0
    /\ stages' = Append(stages, "semantic")
    /\ UNCHANGED <<frames, lastVisit, options, emitted, exitCode>>

\* main.cpp:148-153
DriverSemanticFailure ==
    /\ Running
    /\ semPc = "done"
    /\ hasErrors
    /\ exitCode' = "1"
    /\ UNCHANGED <<options, stages, emitted>>

\* main.cpp:156-158
DriverStartGenerate ==
    /\ Running
    /\ StartGenerate
    /\ stages' = Append(stages, "codegen")
    /\ UNCHANGED <<options, emitted, exitCode>>

\* the process is killed in generate()
DriverKilled ==
    /\ Running
    /\ genPc = "crashed"
    /\ exitCode' = "killed"
    /\ UNCHANGED <<options, stages, emitted>>

\* generate() has returned
Generated == genPc \in {"done", "returned"}

\* main.cpp:158-161
DriverGenerationFailure ==
    /\ Running
    /\ Generated
    /\ hasErrors_
    /\ exitCode' = "1"
    /\ UNCHANGED <<options, stages, emitted>>

\* main.cpp:165-179 with writeToFile (CodeGen.cpp:22-33): the output file
\* opens or does not
DriverWriteOutput ==
    /\ Running
    /\ Generated
    /\ ~hasErrors_
    /\ stages' = Append(stages, "output")
    /\ \E opened \in BOOLEAN :
          IF opened
          THEN /\ emitted' = "ir"
               /\ exitCode' = "0"
               /\ UNCHANGED <<hasErrors_, genErrors_>>
          ELSE /\ hasErrors_' = TRUE
               /\ genErrors_' = Append(genErrors_, <<"Could not open file: ">>)
               /\ exitCode' = "1"
               /\ UNCHANGED emitted
    /\ UNCHANGED options

genOther ==
    <<module_, builder_, currentValue_, currentFunction_, variables_, functions_,
      breakTargets_, continueTargets_, genPc, generated>>

NextDriver ==
    \/ Running /\ LexStep /\ UNCHANGED <<parseVars, semVars, restVars>>
    \/ Running /\ LexFinish /\ UNCHANGED <<parseVars, semVars, restVars>>
    \/ DriverLexicalError /\ UNCHANGED <<lexVars, semVars, tableVars, genVars>>
    \/ DriverStartParse /\ UNCHANGED <<lexVars, semVars, tableVars, genVars>>
    \/ ParseStep /\ UNCHANGED <<lexVars, semVars, restVars>>
    \/ ParseFinish /\ UNCHANGED <<lexVars, semVars, restVars>>
    \/ DriverCompilerError /\ UNCHANGED <<lexVars, parseVars, semVars, tableVars, genVars>>
    \/ DriverPreprocessOnly /\ UNCHANGED <<lexVars, parseVars, semVars, tableVars, genVars>>
    \/ DriverStartAnalyze /\ UNCHANGED <<lexVars, parseVars, tableVars, genVars>>
    \/ Running /\ AnalyzeStatement /\ UNCHANGED <<lexVars, parseVars, restVars>>
    \/ Running /\ AnalyzeProgramReturn /\ UNCHANGED <<lexVars, parseVars, restVars>>
    \/ DriverSemanticFailure /\ UNCHANGED <<lexVars, parseVars, semVars, tableVars, genVars>>
    \/ DriverStartGenerate /\ UNCHANGED <<lexVars, parseVars, semVars, tableVars>>
    \/ Running /\ GenerateStatement
          /\ UNCHANGED <<lexVars, parseVars, semVars, tableVars, driverVars>>
    \/ Running /\ GenerateReturn
          /\ UNCHANGED <<lexVars, parseVars, semVars, tableVars, driverVars>>
    \/ DriverKilled /\ UNCHANGED <<lexVars, parseVars, semVars, tableVars, genVars>>
    \/ DriverGenerationFailure
          /\ UNCHANGED <<lexVars, parseVars, semVars, tableVars, genVars>>
    \/ DriverWriteOutput /\ UNCHANGED <<lexVars, parseVars, semVars, tableVars, genOther>>

SpecDriver == InitDriver /\ [][NextDriver]_vars

\* ---- the stages of the driver

StageOrder == <<"lexer", "parser", "semantic", "codegen", "output">>

IsPrefix(s, t) == Len(s) <= Len(t) /\ SubSeq(t, 1, Len(s)) = s

Started(stage) == \E i \in 1..Len(stages) : stages[i] = stage

\* C18: without -E the stages start in the order lexer, parser, semantic
\* analyzer, lowerer, output, each only after every earlier stage has
\* finished without error, and the process exits with 0 when all of them
\* and the write of the output succeeded and with 1 otherwise
C18_StagesInOrder ==
    ~options.preprocessOnly =>
        /\ IsPrefix(stages, StageOrder)
        /\ Started("parser") => lexPc = "done" /\ ~HasErrorToken(tokens)
        /\ Started("semantic") => parsePc = "done" /\ ~hadError_
        /\ Started("codegen") => semPc = "done" /\ ~hasErrors
        /\ Started("output") => genPc = "done" /\ (hasErrors_ => exitCode = "1")
        /\ ~Running =>
              /\ exitCode \in {"0", "1"}
              /\ exitCode = "0" <=> (stages = StageOrder /\ emitted = "ir")

\* C19: with -E no stage after the lexer runs, and a token stream without
\* ERROR token is emitted with exit code 0 whether or not it parses
C19_PreprocessOnlyStopsAfterLexer ==
    options.preprocessOnly =>
        /\ stages = <<"lexer">>
        /\ (~Running /\ ~HasErrorToken(tokens)) =>
              exitCode = "0" /\ emitted = "tokens"

====
